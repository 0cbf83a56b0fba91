---------------------------- MODULE ChannelModel ----------------------------
(***************************************************************************)
(* The bandwidth of a channel (channel_model.c): time is cut into          *)
(* intervals, each with credits for the units that can be transferred in   *)
(* it.  A ring of NrCreditEntries intervals begins at head, the interval   *)
(* of the last call; only the first valid_len of them can have been used,  *)
(* so only those are refilled when time passes them.                       *)
(*                                                                         *)
(* Operators only: NandTiming keeps a channel as a variable.               *)
(***************************************************************************)
EXTENDS Integers, FiniteSetsExt

CONSTANTS
  NrCreditEntries,   \* NR_CREDIT_ENTRIES
  UnitTimeInterval,  \* UNIT_TIME_INTERVAL
  MaxCredits,        \* max_credits of the channel
  XferLat            \* xfer_lat: time to transfer one unit

ASSUME ChannelAssumption ==
  /\ NrCreditEntries \in Nat \ {0} /\ UnitTimeInterval \in Nat \ {0}
  /\ MaxCredits \in Nat \ {0} /\ XferLat \in Nat

Entries     == 0 .. NrCreditEntries - 1
Interval(t) == t \div UnitTimeInterval

chmodel_init ==
  [cur_time |-> 0, head |-> 0, valid_len |-> 0, avail_credits |-> [i \in Entries |-> MaxCredits]]

\* The entry that is i intervals after the head.
EntryAt(ch, i) == (ch.head + i) % NrCreditEntries
\* How far entry e is from the head.
OffsetOf(ch, e) == (e - ch.head + NrCreditEntries) % NrCreditEntries

\* The head moves to the interval of now, but not beyond what is valid; the
\* intervals it passes are refilled.
AtTime(ch, now) ==
  LET passed == Min({Interval(now) - Interval(ch.cur_time), ch.valid_len})
  IN  [avail_credits |-> [e \in Entries |-> IF OffsetOf(ch, e) < passed THEN MaxCredits
                                            ELSE ch.avail_credits[e]],
       head      |-> (ch.head + passed) % NrCreditEntries,
       cur_time  |-> now,
       valid_len |-> ch.valid_len - passed]

\* Mutation: the interval in which the transfer ends is not counted as used.
ValidToShort(ch, last) == Max({ch.valid_len, last})

\* valid_len once the interval last was used.
ValidTo(ch, last) == Max({ch.valid_len, last + 1})

\* Credits are taken from interval r on, as many as there are, until need is
\* met or the ring ends; last is the interval of the last one.
Consume(ch, r, need) ==
  LET left[i \in r .. NrCreditEntries] ==    \* still missing before interval i
        IF i = r THEN need
        ELSE Max({0, left[i - 1] - ch.avail_credits[EntryAt(ch, i - 1)]})
      enough == {i \in r .. NrCreditEntries - 1 : left[i + 1] = 0}
      last   == IF enough = {} THEN NrCreditEntries - 1 ELSE Min(enough)
      used   == {EntryAt(ch, i) : i \in r .. last}
  IN  [last |-> last,
       ch   |-> [ch EXCEPT
         !.avail_credits = [e \in Entries |->
            IF e \in used THEN Max({0, @[e] - left[OffsetOf(ch, e)]}) ELSE @[e]],
         !.valid_len = ValidTo(ch, last)]]

\* chmodel_request at time now (command_credits is always 0): the channel
\* afterwards and the time at which the transfer ends.  What starts in the past
\* or beyond the ring takes no credits and no time.
chmodel_request(channel, now, request_time, units) ==
  LET ch      == AtTime(channel, now)
      r       == Interval(request_time) - Interval(now)
      taken   == Consume(ch, r, units)
      delay   == Max({0, (taken.last - r) - units \div MaxCredits})
  IN  IF request_time < now \/ r >= NrCreditEntries
        THEN [ch |-> ch, etime |-> request_time]
        ELSE [ch |-> taken.ch, etime |-> request_time + XferLat * units + delay * UnitTimeInterval]

=============================================================================
