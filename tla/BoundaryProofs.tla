--------------------------- MODULE BoundaryProofs ---------------------------
(***************************************************************************)
(* For any scenes that the assumptions allow, any bounds and any width of  *)
(* an int:                                                                 *)
(*   - the game is patched once, before it is called, and hears of a       *)
(*     client only between its connect and its disconnect;                 *)
(*   - no dropped donedl goes unreported for longer than the gap between   *)
(*     two reports, but for a change of sign of the clock;                 *)
(*   - when the game is told that a userinfo has changed, every checked    *)
(*     value in it is acceptable, but for one that the engine may have     *)
(*     cut; what was acceptable is left alone; no key is lost if what is   *)
(*     written back fits; and the output settles unless it was cut;        *)
(*   - player input and entity tokens are safe, and the commands that the  *)
(*     policy denies are kept from the game.                               *)
(***************************************************************************)
EXTENDS Boundary, OperatorProofs

-----------------------------------------------------------------------------
(* The order of the calls.  The library is adopted and patched together;   *)
(* once the wrapper is loaded and there is a library, its dllEntry has     *)
(* been called or the library came late.                                   *)
EntryInv ==
    /\ {lib, wrapper, real, entry, late} \subseteq BOOLEAN
    /\ real => patches = 1
    /\ ~real => patches = 0
    /\ wrapper /\ Finds => entry \/ late
    /\ late => lib
    /\ heard # <<>> => real /\ (entry \/ late)

LEMMA EntryInit == Init => EntryInv
<1> SUFFICES ASSUME Init PROVE EntryInv OBVIOUS
<1>1. PICK on \in Given[scene].running :
        /\ wrapper = on /\ real = on /\ entry = on /\ patches = (IF on THEN 1 ELSE 0)
        /\ lib \in {TRUE, on}
  BY DEF Init
<1>2. late = FALSE /\ heard = <<>> /\ scene \in Scenes BY DEF Init
<1>3. on \in BOOLEAN BY <1>1, <1>2, BoundaryAssumption
<1>4. CASE on = TRUE BY <1>1, <1>2, <1>4 DEF EntryInv, Finds
<1>5. CASE on = FALSE BY <1>1, <1>2, <1>5 DEF EntryInv, Finds
<1> QED BY <1>3, <1>4, <1>5

(* A call of vmMain that reaches the game. *)
LEMMA VmMainLemma ==
    ASSUME EntryInv, NEW calls, VmMain(calls) PROVE EntryInv'
  BY DEF EntryInv, Finds, VmMain, LoadReal

(* The other steps of the engine, of the game and of the admin. *)
LEMMA EntryNext == EntryInv /\ [Next]_vars => EntryInv'
<1> SUFFICES ASSUME EntryInv, [Next]_vars PROVE EntryInv' OBVIOUS
<1>1. CASE DllEntry
  BY <1>1 DEF DllEntry, LoadReal, Finds, EntryInv, callVars
<1>2. CASE LibAppears
  BY <1>2 DEF LibAppears, Finds, EntryInv, callVars
<1>3. ASSUME UNCHANGED wrapVars, UNCHANGED heard \/ heard' = <<>> PROVE EntryInv'
  BY <1>3 DEF wrapVars, Finds, EntryInv
<1>4. CASE Frame \/ Connect \/ Disconnect \/ GameDrops
  BY <1>4, VmMainLemma DEF Frame, Connect, Disconnect, GameDrops
<1>5. ASSUME NEW n, Begin(n) PROVE EntryInv' BY <1>5, VmMainLemma DEF Begin
<1>6. CASE UserinfoRefused \/ UserinfoChanged
  BY <1>6, VmMainLemma DEF UserinfoRefused, UserinfoChanged
<1>7. CASE SendsAgain BY <1>3, <1>7 DEF SendsAgain
<1>8. ASSUME NEW line, ClientCommand(line) \/ CheaterDropped(line) PROVE EntryInv'
  BY <1>8, VmMainLemma DEF ClientCommand, CheaterDropped
<1>9. ASSUME NEW call, NEW in, NEW out, Filters(call, in, out) PROVE EntryInv'
  BY <1>3, <1>9 DEF Filters
<1>10. CASE EngineOwn BY <1>3, <1>10 DEF EngineOwn, callVars
<1>11. CASE UNCHANGED vars BY <1>3, <1>11 DEF vars, callVars
<1>12. ASSUME NEW cmd, GetUsercmd(cmd) PROVE EntryInv' BY <1>9, <1>12 DEF GetUsercmd
<1>13. ASSUME NEW t, GetEntityToken(t) PROVE EntryInv' BY <1>9, <1>13 DEF GetEntityToken
<1>14. ASSUME NEW n, SendServerCommand(n) \/ SiegeFind(n) PROVE EntryInv'
  BY <1>9, <1>14 DEF SendServerCommand, SiegeFind
<1>15. ASSUME NEW cs, SetConfigstring(cs) PROVE EntryInv' BY <1>9, <1>15 DEF SetConfigstring
<1> QED
  BY <1>1, <1>2, <1>4, <1>5, <1>6, <1>7, <1>8, <1>10, <1>11, <1>12, <1>13, <1>14, <1>15
  DEF Next

(* The game gets no call before it has been patched, once, and its own     *)
(* dllEntry has been called, unless its library turned up late.            *)
THEOREM EntryComesFirst == Spec => []EntryFirst
<1>1. EntryInv => EntryFirst BY DEF EntryInv, EntryFirst
<1> QED BY <1>1, EntryInit, EntryNext, PTL DEF Spec

-----------------------------------------------------------------------------
(* The reports of dropped donedl.  The time of the last report is the low  *)
(* bits of an uptime in the past.                                          *)
ReportInv ==
    /\ DlTypeOK
    /\ oob_dl_lastMsg = Wrap(toldAt) /\ toldAt <= uptime
    /\ ReportsTimely

(* Wrapping never raises a number that an int could hold or exceed.        *)
LEMMA WrapBelow ==
    ASSUME NEW x \in Int, x >= -Half PROVE Wrap(x) <= x
<1>1. PICK k \in Int : Wrap(x) = x - (2 * Half) * k BY WrapCongruent
<1>2. Wrap(x) \in (-Half) .. (Half - 1) BY WrapType DEF CInt
<1>3. k >= 0
  <2>1. ASSUME k <= -1 PROVE FALSE
    <3>1. (2 * Half) * k <= -(2 * Half) /\ (2 * Half) * k \in Int
      BY <2>1, HalfAssumption
    <3> QED BY <3>1, <1>1, <1>2, HalfAssumption
  <2> QED BY <2>1
<1>4. (2 * Half) * k >= 0 /\ (2 * Half) * k \in Int BY <1>3, HalfAssumption
<1> QED BY <1>1, <1>4

LEMMA ReportInit == Init => ReportInv
<1> SUFFICES ASSUME Init PROVE ReportInv OBVIOUS
<1>1. 0 \in CInt /\ Wrap(0) = 0 BY WrapId, HalfAssumption DEF CInt
<1>2. DlInit BY DEF Init
<1>3. uptime \in 0 .. MaxUptime /\ MaxUptime \in Nat /\ MaxDrops \in Nat
  BY <1>2, DonedlAssumption DEF DlInit
<1> QED BY <1>1, <1>2, <1>3 DEF DlInit, ReportInv, DlTypeOK, ReportsTimely

(* A drop that is not reported came soon after the last report, or the     *)
(* clock has changed sign.                                                 *)
LEMMA GateLemma ==
    ASSUME ReportInv, ~LogDue(oob_dl_lastMsg, DlGap, ClockMs(uptime))
    PROVE  \/ uptime - toldAt <= DlGap
           \/ ClockMs(uptime) - ClockMs(toldAt) # uptime - toldAt
<1> DEFINE w == Wrap(toldAt)
           c == Wrap(uptime)
<1>1. toldAt \in Int /\ uptime \in Int /\ DlGap \in Nat
  BY DonedlAssumption, HalfAssumption DEF ReportInv, DlTypeOK
<1>2. w \in (-Half) .. (Half - 1) /\ w \in Int /\ c \in Int
  BY <1>1, WrapType DEF CInt
<1>3. ~(Wrap(w + DlGap) < c) BY DEF LogDue, ClockMs, ReportInv
<1> HIDE DEF w, c
<1>4. w + DlGap \in Int /\ w + DlGap >= -Half BY <1>1, <1>2, HalfAssumption
<1>5. Wrap(w + DlGap) <= w + DlGap /\ Wrap(w + DlGap) \in Int
  BY <1>4, WrapBelow, WrapType
<1>6. c <= w + DlGap BY <1>1, <1>2, <1>3, <1>5
<1>7. c - w # uptime - toldAt \/ uptime - toldAt <= DlGap BY <1>1, <1>2, <1>6
<1> QED BY <1>7 DEF w, c, ClockMs

LEMMA DropLemma ==
    ASSUME ReportInv, DropDonedl PROVE ReportInv'
<1> DEFINE due == LogDue(oob_dl_lastMsg, DlGap, ClockMs(uptime))
<1>1. /\ drops \in 0 .. MaxDrops /\ told \in 0 .. MaxDrops
      /\ oob_dl_dropped \in 0 .. MaxDrops /\ uptime \in 0 .. MaxUptime
      /\ toldAt \in 0 .. MaxUptime /\ allowed \in BOOLEAN
      /\ oob_dl_lastMsg \in CInt /\ told + oob_dl_dropped = drops
      /\ oob_dl_lastMsg = Wrap(toldAt) /\ toldAt <= uptime
      /\ MaxDrops \in Nat /\ MaxUptime \in Nat
  BY DonedlAssumption DEF ReportInv, DlTypeOK, ReportsTimely
<1>2. /\ drops < MaxDrops /\ drops' = drops + 1 /\ dropAt' = uptime
      /\ uptime' = uptime /\ allowed' = allowed
  BY DEF DropDonedl
<1>3. CASE due
  <2>1. /\ oob_dl_dropped' = 0 /\ oob_dl_lastMsg' = Wrap(uptime)
        /\ told' = told + oob_dl_dropped + 1 /\ toldAt' = uptime
    BY <1>3 DEF DropDonedl, Count, ClockMs
  <2>2. Wrap(uptime) \in CInt BY <1>1, WrapType
  <2>3. told' = drops + 1 BY <1>1, <2>1
  <2> QED BY <1>1, <1>2, <2>1, <2>2, <2>3 DEF ReportInv, DlTypeOK, ReportsTimely
<1>4. CASE ~due
  <2>1. /\ oob_dl_dropped' = oob_dl_dropped + 1 /\ oob_dl_lastMsg' = oob_dl_lastMsg
        /\ told' = told /\ toldAt' = toldAt
    BY <1>4 DEF DropDonedl, Count
  <2>2. \/ uptime - toldAt <= DlGap
        \/ ClockMs(uptime) - ClockMs(toldAt) # uptime - toldAt
    BY <1>4, GateLemma
  <2>3. dropAt' - toldAt' <= DlGap \/ SignChanged'
    BY <1>2, <2>1, <2>2 DEF SignChanged, ClockMs
  <2>4. told' + oob_dl_dropped' = drops' /\ oob_dl_dropped' \in 0 .. MaxDrops
    BY <1>1, <1>2, <2>1
  <2> QED BY <1>1, <1>2, <2>1, <2>3, <2>4 DEF ReportInv, DlTypeOK, ReportsTimely
<1> QED BY <1>3, <1>4

LEMMA ReportNext == ReportInv /\ [Next]_vars => ReportInv'
<1> SUFFICES ASSUME ReportInv, [Next]_vars PROVE ReportInv' OBVIOUS
<1>1. ASSUME UNCHANGED dlVars PROVE ReportInv'
  BY <1>1 DEF dlVars, ReportInv, DlTypeOK, ReportsTimely, SignChanged, ClockMs
<1>2. CASE EngineOwn
  <2>1. CASE DropDonedl BY <2>1, DropLemma
  <2>2. CASE PassDonedl BY <2>2, <1>1 DEF PassDonedl
  <2>3. CASE Allow
    BY <2>3 DEF Allow, ReportInv, DlTypeOK, ReportsTimely, SignChanged, ClockMs
  <2>4. CASE Tick
    <3>1. uptime' \in 0 .. MaxUptime /\ toldAt <= uptime'
      BY <2>4, DonedlAssumption DEF Tick, ReportInv, DlTypeOK
    <3> QED BY <2>4, <3>1 DEF Tick, ReportInv, DlTypeOK, ReportsTimely, SignChanged, ClockMs
  <2> QED BY <1>2, <2>1, <2>2, <2>3, <2>4 DEF EngineOwn
<1>3. ASSUME NEW calls, VmMain(calls) PROVE ReportInv' BY <1>1, <1>3 DEF VmMain
<1>4. ASSUME NEW call, NEW in, NEW out, Filters(call, in, out) PROVE ReportInv'
  BY <1>1, <1>4 DEF Filters
<1>5. CASE DllEntry BY <1>1, <1>5 DEF DllEntry
<1>6. CASE LibAppears BY <1>1, <1>6 DEF LibAppears
<1>7. CASE Frame \/ Connect \/ Disconnect \/ GameDrops
  BY <1>3, <1>7 DEF Frame, Connect, Disconnect, GameDrops
<1>8. ASSUME NEW n, Begin(n) PROVE ReportInv' BY <1>3, <1>8 DEF Begin
<1>9. CASE UserinfoRefused \/ UserinfoChanged
  BY <1>3, <1>9 DEF UserinfoRefused, UserinfoChanged
<1>10. CASE SendsAgain BY <1>1, <1>10 DEF SendsAgain
<1>11. ASSUME NEW line, ClientCommand(line) \/ CheaterDropped(line) PROVE ReportInv'
  BY <1>3, <1>11 DEF ClientCommand, CheaterDropped
<1>12. ASSUME NEW cmd, GetUsercmd(cmd) PROVE ReportInv' BY <1>4, <1>12 DEF GetUsercmd
<1>13. ASSUME NEW t, GetEntityToken(t) PROVE ReportInv' BY <1>4, <1>13 DEF GetEntityToken
<1>14. ASSUME NEW n, SendServerCommand(n) \/ SiegeFind(n) PROVE ReportInv'
  BY <1>4, <1>14 DEF SendServerCommand, SiegeFind
<1>15. ASSUME NEW cs, SetConfigstring(cs) PROVE ReportInv' BY <1>4, <1>15 DEF SetConfigstring
<1>16. CASE UNCHANGED vars BY <1>1, <1>16 DEF vars
<1> QED
  BY <1>2, <1>5, <1>6, <1>7, <1>8, <1>9, <1>10, <1>11, <1>12, <1>13, <1>14, <1>15, <1>16
  DEF Next

(* Every drop is in one report or still counted, and those counted came    *)
(* within the gap of a report, unless the clock has changed sign since.    *)
THEOREM ReportsInTime == Spec => []ReportsTimely
<1>1. ReportInv => ReportsTimely BY DEF ReportInv
<1> QED BY <1>1, ReportInit, ReportNext, PTL DEF Spec

-----------------------------------------------------------------------------
(* The numbers among the constants. *)
LEMMA InfoNumbers ==
    /\ MaxName \in Nat \ {0} /\ PairSize \in Nat /\ MaxInfo \in Nat /\ Buffer \in Nat
    /\ MaxPairs \in Nat /\ MaxRounds \in Nat \ {0}
    /\ DefaultSize["model"] \in Nat \ {0} /\ DefaultSize["forcepowers"] \in Nat \ {0}
    /\ DOMAIN DefaultSize = {"model", "forcepowers"}
    /\ Buffer > MaxInfo + 3 * PairSize + MaxName
                  + DefaultSize["model"] + DefaultSize["forcepowers"]
<1>1. {MaxName, PairSize, MaxInfo, Buffer, MaxPairs, MaxRounds} \subseteq Nat \ {0}
  BY ONLY UserinfoAssumption
<1>2. DefaultSize \in [{"model", "forcepowers"} -> Nat \ {0}] BY ONLY UserinfoAssumption
<1>3. Buffer > MaxInfo + 3 * PairSize + MaxName
                  + DefaultSize["model"] + DefaultSize["forcepowers"]
  BY ONLY UserinfoAssumption
<1> QED BY ONLY <1>1, <1>2, <1>3

(* Looking a key up.  A list of pairs holds a key, or gives it a value.    *)
Holds(pairs, key) == \E n \in 1 .. Len(pairs) : pairs[n].key = key

Gives(pairs, key, v) ==
    \E n \in 1 .. Len(pairs) :
        /\ pairs[n].key = key /\ pairs[n].val = v
        /\ \A m \in 1 .. (n - 1) : pairs[m].key # key

LEMMA GivesOne ==
    ASSUME NEW pairs, Len(pairs) \in Nat, NEW key, NEW v, NEW w,
           Gives(pairs, key, v), Gives(pairs, key, w)
    PROVE  v = w
<1>1. PICK n \in 1 .. Len(pairs) :
         pairs[n].key = key /\ pairs[n].val = v /\ \A m \in 1 .. (n - 1) : pairs[m].key # key
  BY DEF Gives
<1>2. PICK k \in 1 .. Len(pairs) :
         pairs[k].key = key /\ pairs[k].val = w /\ \A m \in 1 .. (k - 1) : pairs[m].key # key
  BY DEF Gives
<1>3. ~(n < k) BY <1>1, <1>2
<1>4. ~(k < n) BY <1>1, <1>2
<1>5. n = k BY <1>3, <1>4
<1> QED BY <1>1, <1>2, <1>5

(* Has and Info_Value are that. *)
LEMMA LookupLemma ==
    ASSUME NEW i, Len(i.pairs) \in Nat, NEW key
    PROVE  /\ Has(i, key) <=> Holds(i.pairs, key)
           /\ Has(i, key) => /\ First(i, key) \in 1 .. Len(i.pairs)
                             /\ Info_Value(i, key) = i.pairs[First(i, key)].val
                             /\ i.pairs[First(i, key)].key = key
                             /\ Gives(i.pairs, key, Info_Value(i, key))
<1> DEFINE pairs == i.pairs
           I == {n \in 1 .. Len(pairs) : pairs[n].key = key}
<1>1. First(i, key) = IF I # {} THEN Min(I) ELSE 0
  BY DEF First, SelectInSeq
<1>2. Holds(pairs, key) <=> I # {} BY DEF Holds
<1>3. ASSUME I # {}
      PROVE  Min(I) \in I /\ \A y \in I : Min(I) <= y
  <2>1. I \in SUBSET Nat OBVIOUS
  <2> HIDE DEF I
  <2>2. \E x \in I : \A y \in I : x <= y BY <1>3, <2>1, LeastExists
  <2> QED BY <2>2 DEF Min
<1>4. CASE I = {} BY <1>1, <1>2, <1>4 DEF Has
<1>5. CASE I # {}
  <2>1. First(i, key) \in I /\ \A y \in I : First(i, key) <= y BY <1>1, <1>3, <1>5
  <2> DEFINE n == First(i, key)
  <2>2. n \in 1 .. Len(pairs) /\ pairs[n].key = key BY <2>1
  <2>3. Info_Value(i, key) = pairs[n].val BY DEF Info_Value
  <2>4. \A m \in 1 .. (n - 1) : pairs[m].key # key BY <2>1
  <2> HIDE DEF n
  <2>5. Gives(pairs, key, Info_Value(i, key)) BY <2>2, <2>3, <2>4 DEF Gives
  <2>6. Has(i, key) BY <2>2 DEF Has, n
  <2> QED BY <1>2, <1>5, <2>2, <2>3, <2>5, <2>6 DEF n
<1> QED BY <1>4, <1>5

(* What another pair at the end changes. *)
LEMMA LookupAppend ==
    ASSUME NEW S, NEW pairs \in Seq(S), NEW e \in S, NEW key, NEW v
    PROVE  /\ Holds(Append(pairs, e), key) <=> Holds(pairs, key) \/ e.key = key
           /\ Gives(Append(pairs, e), key, v) <=>
                \/ Gives(pairs, key, v)
                \/ ~Holds(pairs, key) /\ e.key = key /\ e.val = v
<1> DEFINE t == Append(pairs, e)
           N == Len(pairs)
<1>1. /\ N \in Nat /\ Len(t) = N + 1 /\ t[N + 1] = e
      /\ \A n \in 1 .. N : t[n] = pairs[n]
  BY AppendProperties, LenProperties
<1> HIDE DEF t, N
<1>2. 1 .. (N + 1) = (1 .. N) \cup {N + 1} BY <1>1
<1>3. Holds(t, key) <=> Holds(pairs, key) \/ e.key = key
  BY <1>1, <1>2 DEF Holds, N
<1>4. ASSUME Gives(t, key, v)
      PROVE  Gives(pairs, key, v) \/ (~Holds(pairs, key) /\ e.key = key /\ e.val = v)
  <2>1. PICK n \in 1 .. (N + 1) :
          t[n].key = key /\ t[n].val = v /\ \A m \in 1 .. (n - 1) : t[m].key # key
    BY <1>1, <1>4 DEF Gives
  <2>2. CASE n = N + 1
    <3>1. \A m \in 1 .. N : pairs[m].key # key BY <1>1, <2>1, <2>2
    <3> QED BY <1>1, <2>1, <2>2, <3>1 DEF Holds, N
  <2>3. CASE n # N + 1
    <3>1. n \in 1 .. N /\ \A m \in 1 .. (n - 1) : m \in 1 .. N BY <1>1, <2>1, <2>3
    <3>2. pairs[n].key = key /\ pairs[n].val = v /\ \A m \in 1 .. (n - 1) : pairs[m].key # key
      BY <1>1, <2>1, <3>1
    <3> QED BY <3>1, <3>2 DEF Gives, N
  <2> QED BY <2>2, <2>3
<1>5. ASSUME Gives(pairs, key, v) PROVE Gives(t, key, v)
  <2>1. PICK n \in 1 .. N :
          pairs[n].key = key /\ pairs[n].val = v /\ \A m \in 1 .. (n - 1) : pairs[m].key # key
    BY <1>5 DEF Gives, N
  <2>2. \A m \in 1 .. (n - 1) : m \in 1 .. N BY <1>1, <2>1
  <2>3. t[n].key = key /\ t[n].val = v /\ \A m \in 1 .. (n - 1) : t[m].key # key
    BY <1>1, <2>1, <2>2
  <2> QED BY <1>1, <1>2, <2>3 DEF Gives
<1>6. ASSUME ~Holds(pairs, key), e.key = key, e.val = v PROVE Gives(t, key, v)
  <2>1. t[N + 1].key = key /\ t[N + 1].val = v BY <1>1, <1>6
  <2>2. \A m \in 1 .. ((N + 1) - 1) : t[m].key # key BY <1>1, <1>6 DEF Holds, N
  <2> QED BY <1>1, <1>2, <2>1, <2>2 DEF Gives
<1> QED BY <1>3, <1>4, <1>5, <1>6 DEF t

(* Taking the pairs of some keys out does not touch the others. *)
LEMMA LookupFilter ==
    ASSUME NEW K, NEW pairs \in Seq(Pairs(Keys)), NEW key \in Keys, NEW v
    PROVE  LET left == Filter(pairs, Pairs(K))
           IN  /\ key \in K => /\ Holds(left, key) <=> Holds(pairs, key)
                               /\ Gives(left, key, v) <=> Gives(pairs, key, v)
               /\ key \notin K => ~Holds(left, key)
<1> DEFINE S == Pairs(Keys)
           Alike(r, q) ==
             /\ key \in K => /\ Holds(q, key) <=> Holds(r, key)
                             /\ Gives(q, key, v) <=> Gives(r, key, v)
             /\ key \notin K => ~Holds(q, key)
           Good == {r \in Seq(S) : Alike(r, Filter(r, Pairs(K)))}
           none == <<>>
<1>1. none \in Good
  <2>1. none \in Seq(S) /\ Len(none) = 0 /\ Filter(none, Pairs(K)) = none BY FilterEmpty
  <2> HIDE DEF none
  <2>2. ~Holds(none, key) BY <2>1 DEF Holds
  <2> QED BY <2>1, <2>2
<1>2. ASSUME NEW r \in Seq(S), NEW e \in S, r \in Good PROVE Append(r, e) \in Good
  <2> DEFINE q == Filter(r, Pairs(K))
             t == Append(r, e)
  <2>1. q \in Seq(S) /\ t \in Seq(S) BY FilterType, AppendProperties
  <2>2. Filter(t, Pairs(K)) = IF e \in Pairs(K) THEN Append(q, e) ELSE q BY FilterAppend
  <2>3. e \in Pairs(K) <=> e.key \in K BY DEF Pairs
  <2>4. Alike(r, q) BY <1>2
  <2> HIDE DEF q, S
  <2>5. /\ Holds(t, key) <=> Holds(r, key) \/ e.key = key
        /\ Gives(t, key, v) <=> \/ Gives(r, key, v)
                                \/ ~Holds(r, key) /\ e.key = key /\ e.val = v
    BY <2>1, LookupAppend
  <2>6. /\ Holds(Append(q, e), key) <=> Holds(q, key) \/ e.key = key
        /\ Gives(Append(q, e), key, v) <=> \/ Gives(q, key, v)
                                           \/ ~Holds(q, key) /\ e.key = key /\ e.val = v
    BY <2>1, LookupAppend
  <2> HIDE DEF t
  <2>7. Alike(t, Filter(t, Pairs(K)))
    <3>1. CASE e.key \in K
      <4>1. Filter(t, Pairs(K)) = Append(q, e) BY <2>2, <2>3, <3>1
      <4>2. Alike(t, Append(q, e)) BY <2>4, <2>5, <2>6, <3>1
      <4> QED BY <4>1, <4>2
    <3>2. CASE e.key \notin K
      <4>1. Filter(t, Pairs(K)) = q BY <2>2, <2>3, <3>2
      <4>2. Alike(t, q) BY <2>4, <2>5, <3>2
      <4> QED BY <4>1, <4>2
    <3> QED BY <3>1, <3>2
  <2> QED BY <2>1, <2>7 DEF t
<1>3. \A r \in Seq(S) : r \in Good
  <2> DEFINE e == <<>>
  <2>1. e \in Good BY <1>1
  <2> HIDE DEF Good, e, S
  <2>2. e \in Good /\ e = <<>> BY <2>1 DEF e
  <2> QED BY <1>2, <2>2, SeqSetInduction
<1> QED BY <1>3

-----------------------------------------------------------------------------
(* How long a string is.  The steps by which PairsSize adds up.            *)
SizeSteps(pairs, F) ==
    /\ F[0] = 0
    /\ \A n \in 1 .. Len(pairs) : F[n] = F[n - 1] + PairSize + pairs[n].val.size

LEMMA SizeUnfold ==
    ASSUME NEW pairs \in Seq(Pairs(Keys))
    PROVE  \E F \in [0 .. Len(pairs) -> Nat] :
              SizeSteps(pairs, F) /\ PairsSize(pairs) = F[Len(pairs)]
<1> DEFINE N == Len(pairs)
           D == [n \in 1 .. N |-> [x \in Nat |-> x + PairSize + pairs[n].val.size]]
           Body(g, n) == IF n = 0 THEN 0 ELSE g[n - 1] + PairSize + pairs[n].val.size
           Fcn(g) == [n \in 0 .. N |-> Body(g, n)]
           Upto == CHOOSE g : g = Fcn(g)
<1>1. N \in Nat /\ \A n \in 1 .. N : pairs[n].val.size \in Nat
  <2>1. N \in Nat BY LenProperties
  <2>2. \A n \in 1 .. N : pairs[n] \in Pairs(Keys) BY ElementOfSeq
  <2> QED BY <2>1, <2>2 DEF Pairs, Values
<1>2. PairSize \in Nat BY UserinfoAssumption
<1>3. \A n \in 1 .. N, x \in Nat : D[n][x] \in Nat BY <1>1, <1>2
<1>4. PICK f : IsRun(N, Nat, 0, D, f)
  <2> HIDE DEF D, N
  <2> QED BY <1>1, <1>3, RecursionExists
<1>5. f = Fcn(f)
  <2>1. f \in [0 .. N -> Nat] /\ f[0] = 0 /\ \A n \in 1 .. N : f[n] = D[n][f[n - 1]]
    BY <1>4 DEF IsRun
  <2>2. ASSUME NEW n \in 0 .. N PROVE f[n] = Body(f, n)
    <3>1. CASE n = 0 BY <2>1, <3>1
    <3>2. CASE n # 0
      <4>1. n \in 1 .. N /\ n - 1 \in 0 .. N BY <1>1, <3>2
      <4>2. f[n - 1] \in Nat BY <2>1, <4>1
      <4> QED BY <2>1, <3>2, <4>1, <4>2
    <3> QED BY <3>1, <3>2
  <2> HIDE DEF Body
  <2> QED BY <2>1, <2>2
<1>6. Upto = Fcn(Upto)
  <2> HIDE DEF Fcn
  <2> QED BY <1>5
<1>7. PairsSize(pairs) = Upto[N] BY DEF PairsSize
<1>8. SizeSteps(pairs, Upto)
  <2> HIDE DEF Upto
  <2>1. Upto[0] = 0 BY <1>1, <1>6
  <2>2. ASSUME NEW n \in 1 .. N PROVE Upto[n] = Upto[n - 1] + PairSize + pairs[n].val.size
    <3>1. n \in 0 .. N /\ n # 0 BY <1>1
    <3>2. Upto[n] = Fcn(Upto)[n] BY <1>6
    <3> HIDE DEF N
    <3> QED BY <3>1, <3>2
  <2> QED BY <2>1, <2>2 DEF SizeSteps
<1>9. Upto \in [0 .. N -> Nat]
  <2> DEFINE Good == {n \in Nat : n <= N => Upto[n] \in Nat}
  <2> HIDE DEF Upto
  <2>1. 0 \in Good BY <1>8 DEF SizeSteps
  <2>2. ASSUME NEW n \in Nat, n \in Good PROVE n + 1 \in Good
    <3> SUFFICES ASSUME n + 1 <= N PROVE Upto[n + 1] \in Nat OBVIOUS
    <3>1. Upto[n] \in Nat /\ n + 1 \in 1 .. N /\ pairs[n + 1].val.size \in Nat
      BY <1>1, <2>2
    <3>2. Upto[n + 1] = Upto[n] + PairSize + pairs[n + 1].val.size
      BY <1>8, <3>1 DEF SizeSteps
    <3> QED BY <3>1, <3>2, <1>2
  <2>3. \A n \in Nat : n \in Good
    <3> HIDE DEF Good
    <3> QED BY <2>1, <2>2, NatSetInduction
  <2>4. \A n \in 0 .. N : Upto[n] \in Nat BY <1>1, <2>3
  <2>5. Upto = [n \in 0 .. N |-> Upto[n]]
    <3>1. Fcn(Upto) = [n \in 0 .. N |-> Fcn(Upto)[n]] OBVIOUS
    <3> QED BY <1>6, <3>1
  <2> QED BY <2>4, <2>5
<1> HIDE DEF Upto
<1> QED BY <1>7, <1>8, <1>9

(* The length is a number, and another pair adds its own. *)
LEMMA SizeType ==
    ASSUME NEW pairs \in Seq(Pairs(Keys)) PROVE PairsSize(pairs) \in Nat
  BY SizeUnfold, LenProperties

LEMMA SizeAppend ==
    ASSUME NEW pairs \in Seq(Pairs(Keys)), NEW e \in Pairs(Keys)
    PROVE  PairsSize(Append(pairs, e)) = PairsSize(pairs) + PairSize + e.val.size
<1> DEFINE t == Append(pairs, e)
           N == Len(pairs)
<1>1. /\ t \in Seq(Pairs(Keys)) /\ Len(t) = N + 1 /\ N \in Nat
      /\ \A n \in 1 .. N : t[n] = pairs[n]
      /\ t[N + 1] = e
  BY AppendProperties, LenProperties
<1>2. PICK F \in [0 .. N -> Nat] : SizeSteps(pairs, F) /\ PairsSize(pairs) = F[N]
  BY SizeUnfold
<1>3. PICK G \in [0 .. (N + 1) -> Nat] : SizeSteps(t, G) /\ PairsSize(t) = G[N + 1]
  <2> HIDE DEF t
  <2> QED BY <1>1, SizeUnfold
<1>4. F[N] = G[N]
  <2> DEFINE Good == {n \in Nat : n <= N => F[n] = G[n]}
  <2> HIDE DEF t
  <2>1. 0 \in Good BY <1>2, <1>3 DEF SizeSteps
  <2>2. ASSUME NEW n \in Nat, n \in Good PROVE n + 1 \in Good
    <3> SUFFICES ASSUME n + 1 <= N PROVE F[n + 1] = G[n + 1] OBVIOUS
    <3>1. F[n] = G[n] /\ n + 1 \in 1 .. N /\ (n + 1) - 1 = n BY <2>2
    <3>2. n + 1 \in 1 .. Len(t) /\ t[n + 1] = pairs[n + 1] BY <1>1, <3>1
    <3> QED BY <1>2, <1>3, <3>1, <3>2 DEF SizeSteps
  <2>3. \A n \in Nat : n \in Good
    <3> HIDE DEF Good
    <3> QED BY <2>1, <2>2, NatSetInduction
  <2> QED BY <1>1, <2>3
<1>5. G[N + 1] = G[N] + PairSize + e.val.size
  <2> HIDE DEF t, N
  <2>1. N + 1 \in 1 .. Len(t) /\ (N + 1) - 1 = N BY <1>1
  <2> QED BY <1>1, <1>3, <2>1 DEF SizeSteps
<1> QED BY <1>2, <1>3, <1>4, <1>5

LEMMA SizeFilter ==
    ASSUME NEW K, NEW pairs \in Seq(Pairs(Keys))
    PROVE  PairsSize(Filter(pairs, Pairs(K))) <= PairsSize(pairs)
<1> DEFINE S == Pairs(Keys)
           Good == {r \in Seq(S) : PairsSize(Filter(r, Pairs(K))) <= PairsSize(r)}
           none == <<>>
<1>1. none \in Good
  <2>1. none \in Seq(S) /\ Filter(none, Pairs(K)) = none BY FilterEmpty
  <2> HIDE DEF none
  <2>2. PairsSize(none) \in Nat BY <2>1, SizeType
  <2> QED BY <2>1, <2>2
<1>2. ASSUME NEW r \in Seq(S), NEW e \in S, r \in Good PROVE Append(r, e) \in Good
  <2> DEFINE q == Filter(r, Pairs(K))
             t == Append(r, e)
             big == PairSize + e.val.size
  <2>1. q \in Seq(S) /\ t \in Seq(S) BY FilterType, AppendProperties
  <2>2. Filter(t, Pairs(K)) = IF e \in Pairs(K) THEN Append(q, e) ELSE q BY FilterAppend
  <2>3. PairsSize(q) <= PairsSize(r) BY <1>2
  <2> HIDE DEF q
  <2>4. PairsSize(t) = PairsSize(r) + PairSize + e.val.size BY SizeAppend
  <2>5. PairsSize(Append(q, e)) = PairsSize(q) + PairSize + e.val.size BY <2>1, SizeAppend
  <2>6. PairsSize(q) \in Nat /\ PairsSize(r) \in Nat BY <2>1, SizeType
  <2>7. PairSize \in Nat /\ e.val.size \in Nat BY UserinfoAssumption DEF Pairs, Values
  <2> HIDE DEF t
  <2>8. PairsSize(Filter(t, Pairs(K))) <= PairsSize(t)
    <3>1. CASE e \in Pairs(K)
      <4>1. Filter(t, Pairs(K)) = Append(q, e) BY <2>2, <3>1
      <4> QED BY <4>1, <2>3, <2>4, <2>5, <2>6, <2>7
    <3>2. CASE e \notin Pairs(K)
      <4>1. Filter(t, Pairs(K)) = q BY <2>2, <3>2
      <4> QED BY <4>1, <2>3, <2>4, <2>6, <2>7
    <3> QED BY <3>1, <3>2
  <2> QED BY <2>1, <2>8 DEF t
<1>3. \A r \in Seq(S) : r \in Good
  <2> DEFINE e == <<>>
  <2>1. e \in Good BY <1>1
  <2> HIDE DEF Good, e, S
  <2>2. e \in Good /\ e = <<>> BY <2>1 DEF e
  <2> QED BY <1>2, <2>2, SeqSetInduction
<1> QED BY <1>3

-----------------------------------------------------------------------------
(* A name that has been cleaned is a name that the game accepts. *)
LEMMA CleanNameLemma ==
    ASSUME NEW text \in Seq(Chars)
    PROVE  /\ CleanName(text) \in Seq(Chars)
           /\ Len(CleanName(text)) \in 1 .. MaxName
           /\ \A i \in DOMAIN CleanName(text) : CleanName(text)[i] # "ctl"
<1> DEFINE N == Len(text)
           ids == [i \in DOMAIN text |-> i]
           kept == {i \in DOMAIN text \ Skipped(text) : text[i] # "ctl" /\ ~Triple(text, i)}
           order == Filter(ids, kept)
           out == [k \in DOMAIN order |-> text[order[k]]]
           n == IF Len(out) < MaxName THEN Len(out) ELSE MaxName
           name == CleanName(text)
<1>1. N \in Nat /\ DOMAIN text = 1 .. N /\ \A i \in 1 .. N : text[i] \in Chars
  BY LenProperties, ElementOfSeq
<1>2. ids \in Seq(Nat) BY <1>1
<1>3. order \in Seq(Nat)
  <2> HIDE DEF ids, kept
  <2> QED BY <1>2, FilterType
<1>4. \A k \in 1 .. Len(order) : order[k] \in kept
  <2> HIDE DEF ids, kept
  <2> QED BY <1>2, FilterElements
<1>5. name = IF out = <<>> THEN Padawan ELSE SubSeq(out, 1, n)
  BY DEF CleanName
<1> HIDE DEF order
<1>6. DOMAIN order = 1 .. Len(order) /\ Len(order) \in Nat BY <1>3, LenProperties
<1>7. out \in Seq(Chars) /\ Len(out) = Len(order) /\ \A k \in 1 .. Len(order) : out[k] # "ctl"
  <2>1. \A k \in 1 .. Len(order) : text[order[k]] \in Chars /\ text[order[k]] # "ctl"
    BY <1>1, <1>4
  <2> HIDE DEF kept
  <2> QED BY <1>6, <2>1
<1> HIDE DEF out, name
<1>8. MaxName \in Nat \ {0} /\ Padawan \in Seq(Chars) /\ Padawan # <<>>
      /\ Len(Padawan) <= MaxName /\ \A i \in DOMAIN Padawan : Padawan[i] # "ctl"
  BY UserinfoAssumption
<1>9. CASE out = <<>>
  <2>1. name = Padawan BY <1>5, <1>9
  <2>2. Len(Padawan) \in Nat \ {0} BY <1>8, EmptySeq
  <2> QED BY <2>1, <2>2, <1>8 DEF name
<1>10. CASE out # <<>>
  <2>1. name = SubSeq(out, 1, n) BY <1>5, <1>10
  <2>2. Len(out) \in Nat \ {0} BY <1>7, <1>10, EmptySeq
  <2>3. n \in 1 .. Len(out) /\ n <= MaxName BY <2>2, <1>8
  <2> HIDE DEF n
  <2>4. \A i \in 1 .. n : out[i] \in Chars BY <1>7, <2>2, <2>3, ElementOfSeq
  <2>5. name \in Seq(Chars) /\ Len(name) = n /\ \A i \in 1 .. n : name[i] = out[i]
    <3>1. /\ SubSeq(out, 1, n) \in Seq(Chars)
          /\ Len(SubSeq(out, 1, n)) = IF 1 <= n THEN n - 1 + 1 ELSE 0
          /\ \A i \in 1 .. (n - 1 + 1) : SubSeq(out, 1, n)[i] = out[1 + i - 1]
      BY <2>3, <2>4, SubSeqProperties
    <3>2. n \in Nat /\ n - 1 + 1 = n /\ 1 <= n /\ \A i \in 1 .. n : 1 + i - 1 = i BY <2>2, <2>3
    <3> QED BY <2>1, <3>1, <3>2
  <2>6. DOMAIN name = 1 .. n BY <2>5, LenProperties
  <2>7. \A i \in 1 .. n : name[i] # "ctl" BY <2>2, <2>3, <2>5, <1>7
  <2> QED BY <2>2, <2>3, <2>5, <2>6, <2>7, <1>8 DEF name
<1> QED BY <1>9, <1>10

(* A text is clean when nothing in it has to go. *)
CleanText(text) ==
    /\ text \in Seq(Chars) /\ Len(text) \in 1 .. MaxName
    /\ Skipped(text) = {}
    /\ \A i \in DOMAIN text : text[i] # "ctl" /\ ~Triple(text, i)

LEMMA CleanFixed == ASSUME NEW text, CleanText(text) PROVE CleanName(text) = text
<1> DEFINE N == Len(text)
           ids == [i \in DOMAIN text |-> i]
           kept == {i \in DOMAIN text \ Skipped(text) : text[i] # "ctl" /\ ~Triple(text, i)}
           order == Filter(ids, kept)
           out == [k \in DOMAIN order |-> text[order[k]]]
           n == IF Len(out) < MaxName THEN Len(out) ELSE MaxName
<1>1. text \in Seq(Chars) /\ N \in 1 .. MaxName /\ DOMAIN text = 1 .. N /\ MaxName \in Nat
  BY LenProperties, InfoNumbers DEF CleanText
<1>2. N \in Nat /\ N # 0 /\ N <= MaxName BY <1>1
<1>3. kept = 1 .. N BY <1>1 DEF CleanText
<1>4. ids \in Seq(Nat) /\ Len(ids) = N /\ \A i \in 1 .. N : ids[i] = i BY <1>1, <1>2
<1>5. order = ids
  <2> HIDE DEF ids, kept, N
  <2>1. \A i \in 1 .. Len(ids) : ids[i] \in kept BY <1>3, <1>4
  <2> QED BY <1>4, <2>1, FilterAll
<1>6. out = text
  <2>1. out = [k \in 1 .. N |-> text[k]] BY <1>1, <1>5
  <2>2. text = [k \in 1 .. N |-> text[k]] BY <1>1, LenProperties
  <2> QED BY <2>1, <2>2
<1>7. CleanName(text) = IF out = <<>> THEN Padawan ELSE SubSeq(out, 1, n) BY DEF CleanName
<1> HIDE DEF out
<1>8. out # <<>> BY <1>2, <1>6
<1>9. n = N
  <2>1. Len(out) = N BY <1>6
  <2> HIDE DEF N
  <2> QED BY <1>1, <1>2, <2>1
<1>10. SubSeq(text, 1, N) = text BY <1>1, SubSeqFull
<1> QED BY <1>6, <1>7, <1>8, <1>9, <1>10

(* What is called a Padawan is clean. *)
LEMMA PadawanClean == CleanText(Padawan)
<1>1. /\ Padawan \in Seq(Chars) /\ Padawan # <<>> /\ Len(Padawan) <= MaxName
      /\ \A i \in DOMAIN Padawan : Padawan[i] \notin Blanks \cup Runs \cup {"ctl"}
  BY UserinfoAssumption
<1>2. Len(Padawan) \in Nat \ {0} /\ DOMAIN Padawan = 1 .. Len(Padawan) BY <1>1, EmptySeq, LenProperties
<1>3. Len(Padawan) \in 1 .. MaxName BY <1>1, <1>2, InfoNumbers
<1>4. Skipped(Padawan) = {}
  <2>1. 1 \in DOMAIN Padawan /\ \A i \in DOMAIN Padawan : 1 \in 1 .. i BY <1>2
  <2> QED BY <1>1, <2>1 DEF Skipped
<1>5. \A i \in DOMAIN Padawan : ~Triple(Padawan, i)
  <2>1. \A i \in DOMAIN Padawan : i \in i .. (i + 2) BY <1>2
  <2> QED BY <1>1, <2>1 DEF Triple
<1> QED BY <1>1, <1>3, <1>4, <1>5 DEF CleanText

(* Between two characters of a run that are kept, one after the other,     *)
(* there is nothing else: whatever went there was the first of a triple.   *)
LEMMA RunLemma ==
    ASSUME NEW text \in Seq(Chars), \A i \in DOMAIN text : text[i] # "ctl",
           NEW x \in 1 .. Len(text), NEW y \in 1 .. Len(text), x < y,
           x \notin Skipped(text), text[x] = text[y],
           \A z \in 1 .. Len(text) : x < z /\ z < y => z \in Skipped(text) \/ Triple(text, z)
    PROVE  \A z \in x .. y : text[z] = text[x]
<1> DEFINE c == text[x]
           Bad == {k \in Nat : y - k \in x .. y /\ text[y - k] # c}
<1>1. Len(text) \in Nat /\ DOMAIN text = 1 .. Len(text) BY LenProperties
<1> SUFFICES ASSUME NEW z \in x .. y, text[z] # c PROVE FALSE OBVIOUS
<1>2. y - z \in Bad
  <2>1. y - z \in Nat /\ y - (y - z) = z BY <1>1
  <2> HIDE DEF c
  <2> QED BY <2>1
<1>3. PICK k \in Bad : \A l \in Bad : k <= l
  <2>1. Bad \in SUBSET Nat OBVIOUS
  <2> HIDE DEF Bad
  <2> QED BY <1>2, <2>1, LeastExists
<1> DEFINE w == y - k
<1>4. k \in Nat /\ w \in x .. y /\ text[w] # c BY <1>3
<1>5. w # x /\ w # y BY <1>4
<1>6. x < w /\ w < y /\ w \in 1 .. Len(text) /\ w + 1 \in x .. y /\ k >= 1 BY <1>1, <1>4, <1>5
<1>7. w \notin Skipped(text)
  <2>1. PICK j \in 1 .. x : text[j] \notin Blanks BY <1>1 DEF Skipped
  <2>2. j \in 1 .. w BY <1>1, <1>6, <2>1
  <2> HIDE DEF w
  <2> QED BY <2>1, <2>2 DEF Skipped
<1>8. text[w + 1] = text[w]
  <2>1. Triple(text, w) BY <1>6, <1>7
  <2>2. w \in w .. (w + 2) /\ w + 1 \in w .. (w + 2) BY <1>1, <1>6
  <2> HIDE DEF w
  <2> QED BY <2>1, <2>2 DEF Triple
<1>9. text[w + 1] = c
  <2>1. k - 1 \in Nat /\ ~(k <= k - 1) /\ y - (k - 1) = w + 1 BY <1>1, <1>4, <1>6
  <2>2. k - 1 \notin Bad
    <3> HIDE DEF Bad
    <3> QED BY <1>3, <2>1
  <2> QED BY <1>6, <2>1, <2>2
<1> QED BY <1>4, <1>8, <1>9

(* Without control characters one pass is enough. *)
LEMMA CleanOnce ==
    ASSUME NEW text \in Seq(Chars), \A i \in DOMAIN text : text[i] # "ctl"
    PROVE  CleanText(CleanName(text))
<1> DEFINE N == Len(text)
           ids == [i \in DOMAIN text |-> i]
           kept == {i \in DOMAIN text \ Skipped(text) : text[i] # "ctl" /\ ~Triple(text, i)}
           order == Filter(ids, kept)
           L == Len(order)
           out == [k \in DOMAIN order |-> text[order[k]]]
           n == IF Len(out) < MaxName THEN Len(out) ELSE MaxName
           name == CleanName(text)
<1>1. N \in Nat /\ DOMAIN text = 1 .. N BY LenProperties
<1>2. kept = {i \in 1 .. N : i \notin Skipped(text) /\ ~Triple(text, i)} BY <1>1
<1>3. ids \in Seq(Nat) /\ Len(ids) = N /\ \A i \in 1 .. N : ids[i] = i BY <1>1
<1>4. Ascending(ids) BY <1>1, <1>3 DEF Ascending
<1>5. order \in Seq(Nat) /\ L \in Nat /\ DOMAIN order = 1 .. L /\ Ascending(order)
  <2>1. order \in Seq(Nat) /\ Ascending(order)
    <3> HIDE DEF ids, kept
    <3> QED BY <1>3, <1>4, FilterType, FilterAscending
  <2> HIDE DEF order
  <2> QED BY <2>1, LenProperties
<1>6. \A k \in 1 .. L : order[k] \in kept
  <2> HIDE DEF ids, kept
  <2> QED BY <1>3, FilterElements
<1>7. \A z \in kept : \E k \in 1 .. L : order[k] = z
  <2> SUFFICES ASSUME NEW z \in kept PROVE \E k \in 1 .. L : order[k] = z OBVIOUS
  <2>1. z \in 1 .. Len(ids) /\ ids[z] = z BY <1>2, <1>3
  <2> HIDE DEF ids, kept
  <2>2. ids[z] \in kept BY <2>1
  <2>3. \E k \in 1 .. Len(Filter(ids, kept)) : Filter(ids, kept)[k] = ids[z]
    <3> DEFINE Q == Nat
               m == z
    <3>1. ids \in Seq(Q) /\ m \in 1 .. Len(ids) /\ ids[m] \in kept BY <1>3, <2>1, <2>2
    <3> HIDE DEF Q, m
    <3>2. \E k \in 1 .. Len(Filter(ids, kept)) : Filter(ids, kept)[k] = ids[m]
      BY <3>1, FilterKeeps
    <3> QED BY <3>2 DEF m
  <2> QED BY <2>1, <2>3
<1>8. /\ name \in Seq(Chars) /\ Len(name) \in 1 .. MaxName
      /\ \A i \in DOMAIN name : name[i] # "ctl"
  BY CleanNameLemma
<1>9. name = IF out = <<>> THEN Padawan ELSE SubSeq(out, 1, n) BY DEF CleanName
<1> HIDE DEF name, order, kept
<1>10. CASE out = <<>> BY <1>9, <1>10, PadawanClean DEF name
<1>11. CASE out # <<>>
  <2>1. Len(out) = L /\ \A k \in 1 .. L : out[k] = text[order[k]] BY <1>5
  <2>2. L # 0 /\ out \in Seq(Chars)
    <3>1. \A k \in 1 .. L : text[order[k]] \in Chars BY <1>1, <1>2, <1>6, ElementOfSeq
    <3>2. out \in Seq(Chars) BY <1>5, <3>1
    <3> HIDE DEF out, L
    <3> QED BY <1>11, <2>1, <3>2, EmptySeq
  <2>3. n \in 1 .. L BY <1>5, <2>1, <2>2, InfoNumbers
  <2>4. /\ Len(name) = n /\ DOMAIN name = 1 .. n
        /\ \A k \in 1 .. n : k \in 1 .. L /\ name[k] = text[order[k]]
    <3> HIDE DEF n, out
    <3>1. \A i \in 1 .. n : out[i] \in Chars
      <4>1. \A i \in 1 .. n : i \in 1 .. Len(out) BY <1>5, <2>1, <2>3
      <4> QED BY <2>2, <4>1, ElementOfSeq
    <3>2. n \in Int /\ 1 \in Int BY <1>5, <2>3
    <3>3. /\ Len(SubSeq(out, 1, n)) = IF 1 <= n THEN n - 1 + 1 ELSE 0
          /\ \A i \in 1 .. (n - 1 + 1) : SubSeq(out, 1, n)[i] = out[1 + i - 1]
      BY <3>1, <3>2, SubSeqProperties
    <3>4. n - 1 + 1 = n /\ 1 <= n /\ \A i \in 1 .. n : 1 + i - 1 = i /\ i \in 1 .. L
      BY <1>5, <2>3
    <3>5. name = SubSeq(out, 1, n) BY <1>9, <1>11
    <3>6. Len(name) = n BY <3>3, <3>4, <3>5
    <3>7. DOMAIN name = 1 .. n BY <1>8, <3>6, LenProperties
    <3>8. \A i \in 1 .. n : name[i] = out[i] BY <3>3, <3>4, <3>5
    <3> QED BY <2>1, <3>4, <3>6, <3>7, <3>8
  <2> HIDE DEF out, n, L
  <2>5. Skipped(name) = {}
    <3> SUFFICES ASSUME name[1] \in Blanks PROVE FALSE
      <4>1. \A i \in DOMAIN name : 1 \in 1 .. i BY <1>5, <2>3, <2>4
      <4> QED BY <4>1 DEF Skipped
    <3> DEFINE p == order[1]
    <3>1. 1 \in 1 .. L /\ p \in kept /\ text[p] \in Blanks
      <4>1. 1 \in 1 .. n /\ 1 \in 1 .. L BY <1>5, <2>3
      <4> QED BY <1>6, <2>4, <4>1
    <3>2. p \in 1 .. N /\ p \notin Skipped(text) BY <1>2, <3>1
    <3>3. \A z \in kept : p <= z
      <4> SUFFICES ASSUME NEW z \in kept PROVE p <= z OBVIOUS
      <4>1. PICK k \in 1 .. L : order[k] = z BY <1>7
      <4>2. CASE k = 1 BY <1>1, <3>2, <4>1, <4>2
      <4>3. CASE k # 1
        <5>1. 1 < k BY <1>5, <4>3
        <5>2. p < z BY <1>5, <3>1, <4>1, <5>1 DEF Ascending, L
        <5>3. z \in Nat BY <1>2
        <5> QED BY <1>1, <3>2, <5>2, <5>3
      <4> QED BY <4>2, <4>3
    <3> HIDE DEF p
    <3>4. PICK q \in 1 .. p : text[q] \notin Blanks BY <1>1, <3>2 DEF Skipped
    <3>5. q \in 1 .. N /\ q < p /\ q \in Nat BY <1>1, <3>1, <3>2, <3>4
    <3>6. \A r \in 1 .. N : q <= r => r \notin Skipped(text)
      <4>1. \A r \in 1 .. N : q <= r => q \in 1 .. r BY <1>1, <3>5
      <4> QED BY <3>4, <4>1 DEF Skipped
    <3>7. \A r \in 1 .. N : q <= r /\ r < p => Triple(text, r)
      <4> SUFFICES ASSUME NEW r \in 1 .. N, q <= r, r < p, ~Triple(text, r) PROVE FALSE OBVIOUS
      <4>1. r \in kept BY <1>2, <3>6
      <4> QED BY <3>2, <3>3, <4>1
    <3>8. \A r \in 1 .. N : Triple(text, r) => text[r + 1] = text[r] /\ r + 1 \in 1 .. N
      <4> SUFFICES ASSUME NEW r \in 1 .. N, Triple(text, r)
                   PROVE  text[r + 1] = text[r] /\ r + 1 \in 1 .. N
        OBVIOUS
      <4>1. r \in r .. (r + 2) /\ r + 1 \in r .. (r + 2) /\ (r + 2 <= N => r + 1 \in 1 .. N)
        BY <1>1
      <4> QED BY <4>1 DEF Triple
    <3> DEFINE Good == {d \in Nat : q + d <= p => text[q + d] = text[q]}
    <3>9. 0 \in Good BY <3>5
    <3>10. ASSUME NEW d \in Nat, d \in Good PROVE d + 1 \in Good
      <4> SUFFICES ASSUME q + (d + 1) <= p PROVE text[q + (d + 1)] = text[q] OBVIOUS
      <4>1. q + d < p /\ q + d <= p /\ q + d \in 1 .. N /\ q <= q + d /\ q + (d + 1) = (q + d) + 1
        BY <1>1, <3>2, <3>5
      <4>2. text[q + d] = text[q] BY <3>10, <4>1
      <4>3. text[(q + d) + 1] = text[q + d] BY <3>7, <3>8, <4>1
      <4> QED BY <4>1, <4>2, <4>3
    <3>11. p - q \in Good
      <4>1. p - q \in Nat BY <1>1, <3>2, <3>5
      <4> HIDE DEF Good
      <4> QED BY <3>9, <3>10, <4>1, NatSetInduction
    <3>12. q + (p - q) = p BY <1>1, <3>2, <3>5
    <3>13. text[p] = text[q] BY <1>1, <3>2, <3>11, <3>12
    <3> QED BY <3>1, <3>4, <3>13
  <2>6. ASSUME NEW k \in DOMAIN name, Triple(name, k) PROVE FALSE
    <3>1. k \in 1 .. n /\ k + 2 <= n /\ k + 1 \in 1 .. n /\ k + 2 \in 1 .. n
      BY <1>5, <2>3, <2>4, <2>6 DEF Triple
    <3>2. PICK c \in Runs : \A j \in k .. (k + 2) : name[j] = c BY <2>6 DEF Triple
    <3> DEFINE a == order[k]
               b == order[k + 1]
               d == order[k + 2]
    <3>3. name[k] = c /\ name[k + 1] = c /\ name[k + 2] = c
      <4>1. k \in k .. (k + 2) /\ k + 1 \in k .. (k + 2) /\ k + 2 \in k .. (k + 2)
        BY <1>5, <2>3, <3>1
      <4> QED BY <3>2, <4>1
    <3>4. text[a] = c /\ text[b] = c /\ text[d] = c BY <2>4, <3>1, <3>3
    <3>5. a \in kept /\ b \in kept /\ d \in kept BY <1>6, <2>4, <3>1
    <3>6. a < b /\ b < d
      <4>1. k < k + 1 /\ k + 1 < k + 2 BY <1>5, <2>3, <3>1
      <4>2. k \in 1 .. L /\ k + 1 \in 1 .. L /\ k + 2 \in 1 .. L BY <2>4, <3>1
      <4> QED BY <1>5, <4>1, <4>2 DEF Ascending, L
    <3>7. ASSUME NEW m \in 1 .. L, m + 1 \in 1 .. L, NEW z \in kept,
                 order[m] < z, z < order[m + 1]
          PROVE  FALSE
      <4>1. PICK l \in 1 .. L : order[l] = z BY <1>7
      <4>2. l < m \/ l = m \/ l = m + 1 \/ m + 1 < l BY <1>5
      <4>3. order[l] \in Nat /\ order[m] \in Nat /\ order[m + 1] \in Nat BY <1>2, <1>6, <3>7
      <4>4. l < m => order[l] < order[m] BY <1>5 DEF Ascending, L
      <4>5. m + 1 < l => order[m + 1] < order[l] BY <1>5, <3>7 DEF Ascending, L
      <4> QED BY <3>7, <4>1, <4>2, <4>3, <4>4, <4>5
    <3>8. \A z \in 1 .. N : a < z /\ z < b => z \in Skipped(text) \/ Triple(text, z)
      <4>1. k \in 1 .. L /\ k + 1 \in 1 .. L BY <2>4, <3>1
      <4> QED BY <1>2, <3>7, <4>1
    <3>9. \A z \in 1 .. N : b < z /\ z < d => z \in Skipped(text) \/ Triple(text, z)
      <4>1. k + 1 \in 1 .. L /\ (k + 1) + 1 \in 1 .. L /\ (k + 1) + 1 = k + 2
        <5>1. (k + 1) + 1 = k + 2 BY <1>5, <2>3, <3>1
        <5> QED BY <2>4, <3>1, <5>1
      <4> QED BY <1>2, <3>7, <4>1
    <3> HIDE DEF a, b, d
    <3>10. /\ a \in 1 .. N /\ b \in 1 .. N /\ d \in 1 .. N
           /\ a \notin Skipped(text) /\ b \notin Skipped(text) /\ ~Triple(text, a)
      BY <1>2, <3>5
    <3>11. \A z \in a .. b : text[z] = c
      <4>1. \A z \in a .. b : text[z] = text[a] BY <3>4, <3>6, <3>8, <3>10, RunLemma
      <4> QED BY <3>4, <4>1
    <3>12. \A z \in b .. d : text[z] = c
      <4>1. \A z \in b .. d : text[z] = text[b] BY <3>4, <3>6, <3>9, <3>10, RunLemma
      <4> QED BY <3>4, <4>1
    <3>13. \A z \in a .. (a + 2) : z \in a .. b \/ z \in b .. d BY <1>1, <3>6, <3>10
    <3>14. a + 2 <= N BY <1>1, <3>6, <3>10
    <3>15. Triple(text, a) BY <3>11, <3>12, <3>13, <3>14 DEF Triple
    <3> QED BY <3>10, <3>15
  <2>7. CleanText(name) BY <1>8, <2>5, <2>6 DEF CleanText
  <2> QED BY <2>7 DEF name
<1> QED BY <1>10, <1>11

(* What has been cleaned twice is clean for good. *)
LEMMA CleanTwice ==
    ASSUME NEW text \in Seq(Chars)
    PROVE  CleanName(CleanName(CleanName(text))) = CleanName(CleanName(text))
<1> DEFINE c == CleanName(text)
<1>1. c \in Seq(Chars) /\ \A i \in DOMAIN c : c[i] # "ctl" BY CleanNameLemma
<1> HIDE DEF c
<1>2. CleanText(CleanName(c)) BY <1>1, CleanOnce
<1>3. CleanName(CleanName(c)) = CleanName(c) BY <1>2, CleanFixed
<1> QED BY <1>3 DEF c

-----------------------------------------------------------------------------
(* Info_Set: the key has the new value if there is room for it, and all    *)
(* other keys have the ones they had.                                      *)
Same(i, j, key) ==
    /\ Has(i, key) <=> Has(j, key)
    /\ Has(i, key) => Info_Value(i, key) = Info_Value(j, key)

LEMMA SameLemma ==
    ASSUME NEW i, NEW j, Len(i.pairs) \in Nat, Len(j.pairs) \in Nat, NEW key,
           Holds(i.pairs, key) <=> Holds(j.pairs, key),
           \A v : Gives(i.pairs, key, v) <=> Gives(j.pairs, key, v)
    PROVE  Same(i, j, key)
<1>1. Has(i, key) <=> Has(j, key) BY LookupLemma
<1>2. ASSUME Has(i, key) PROVE Info_Value(i, key) = Info_Value(j, key)
  <2>1. Gives(i.pairs, key, Info_Value(i, key)) BY <1>2, LookupLemma
  <2>2. Gives(j.pairs, key, Info_Value(j, key)) BY <1>1, <1>2, LookupLemma
  <2>3. Gives(j.pairs, key, Info_Value(i, key)) BY <2>1
  <2> QED BY <2>2, <2>3, GivesOne
<1> QED BY <1>1, <1>2 DEF Same

LEMMA Info_SetLemma ==
    ASSUME NEW i, IsInfo(i), NEW key \in Keys, NEW v \in Values, IsValue(key, v)
    PROVE  LET j == Info_Set(i, key, v)
           IN  /\ IsInfo(j)
               /\ Has(i, key) => Len(j.pairs) <= Len(i.pairs)
               /\ \A k \in Keys \ {key} : Same(i, j, k)
               /\ Has(j, key) => Info_Value(j, key) = v
               /\ PairsSize(j.pairs) <= PairsSize(i.pairs) + PairSize + v.size
               /\ v.size > 0 /\ PairsSize(i.pairs) + PairSize + v.size < Buffer - 1 =>
                    Has(j, key)
               /\ \A K : key \notin K =>
                    Filter(j.pairs, Pairs(K)) = Filter(i.pairs, Pairs(K))
<1> DEFINE S == Pairs(Keys)
           T == Pairs(Keys \ {key})
           left == Filter(i.pairs, T)
           e == [key |-> key, val |-> v]
           j == Info_Set(i, key, v)
<1>1. i.pairs \in Seq(S) /\ e \in S BY DEF IsInfo, Pairs
<1>2. left \in Seq(S) /\ Len(left) \in Nat /\ Len(i.pairs) \in Nat
  <2> HIDE DEF S, T
  <2> QED BY <1>1, FilterType, LenProperties
<1>3. /\ \A n \in 1 .. Len(left) : \E m \in 1 .. Len(i.pairs) : i.pairs[m] = left[n]
      /\ Len(left) <= Len(i.pairs)
      /\ (\E m \in 1 .. Len(i.pairs) : i.pairs[m] \notin T) => Len(left) < Len(i.pairs)
  <2> HIDE DEF S, T
  <2> QED BY <1>1, FilterElements
<1>4. Has(i, key) => Len(left) < Len(i.pairs)
  <2>1. ASSUME Has(i, key) PROVE \E m \in 1 .. Len(i.pairs) : i.pairs[m] \notin T
    <3>1. First(i, key) \in 1 .. Len(i.pairs) /\ i.pairs[First(i, key)].key = key
      BY <1>2, <2>1, LookupLemma
    <3> QED BY <3>1 DEF Pairs
  <2> QED BY <1>3, <2>1
<1>5. \A k \in DOMAIN i.pairs : IsValue(i.pairs[k].key, i.pairs[k].val) BY DEF IsInfo
<1>6. \A n \in 1 .. Len(left) : IsValue(left[n].key, left[n].val)
  <2>1. DOMAIN i.pairs = 1 .. Len(i.pairs) BY <1>1, LenProperties
  <2> QED BY <1>3, <1>5, <2>1
<1>7. /\ ~Holds(left, key)
      /\ \A k \in Keys \ {key} : Holds(left, k) <=> Holds(i.pairs, k)
      /\ \A w : \A k \in Keys \ {key} : Gives(left, k, w) <=> Gives(i.pairs, k, w)
  <2> DEFINE K == Keys \ {key}
  <2>1. \A w : \A k \in Keys :
          LET l == Filter(i.pairs, Pairs(K))
          IN  /\ k \in K => /\ Holds(l, k) <=> Holds(i.pairs, k)
                            /\ Gives(l, k, w) <=> Gives(i.pairs, k, w)
              /\ k \notin K => ~Holds(l, k)
    <3> HIDE DEF K
    <3> QED BY <1>1, LookupFilter
  <2> QED BY <2>1
<1>8. /\ PairsSize(left) \in Nat /\ PairsSize(i.pairs) \in Nat
      /\ PairsSize(left) <= PairsSize(i.pairs)
  <2>1. PairsSize(Filter(i.pairs, Pairs(Keys \ {key}))) <= PairsSize(i.pairs)
    <3> DEFINE K == Keys \ {key}
    <3> HIDE DEF K
    <3>1. PairsSize(Filter(i.pairs, Pairs(K))) <= PairsSize(i.pairs) BY <1>1, SizeFilter
    <3> QED BY <3>1 DEF K
  <2> QED BY <1>1, <1>2, <2>1, SizeType
<1>9. PairSize \in Nat /\ v.size \in Nat BY UserinfoAssumption DEF Values
<1>10. ASSUME NEW K, key \notin K
       PROVE  Filter(left, Pairs(K)) = Filter(i.pairs, Pairs(K))
  <2> DEFINE P == Pairs(K)
  <2>1. Filter(left, P) = Filter(i.pairs, T \cap P)
    <3> HIDE DEF S, T, P
    <3> QED BY <1>1, FilterFilter
  <2>2. ASSUME NEW n \in 1 .. Len(i.pairs) PROVE i.pairs[n] \in T \cap P <=> i.pairs[n] \in P
    <3>1. i.pairs[n] \in S BY <1>1, ElementOfSeq
    <3> QED BY <1>10, <3>1 DEF Pairs
  <2>3. Filter(i.pairs, T \cap P) = Filter(i.pairs, P)
    <3> DEFINE TP == T \cap P
    <3>1. \A n \in 1 .. Len(i.pairs) : i.pairs[n] \in TP <=> i.pairs[n] \in P BY <2>2
    <3> HIDE DEF S, P, TP
    <3>2. Filter(i.pairs, TP) = Filter(i.pairs, P) BY <1>1, <3>1, FilterAlike
    <3> QED BY <3>2 DEF TP
  <2> QED BY <2>1, <2>3
<1>11. j = [pairs |-> Appended(left, key, v), tail |-> FALSE] BY DEF Info_Set
<1> HIDE DEF left, j
<1>12. CASE v.size > 0 /\ PairsSize(left) + PairSize + v.size < Buffer - 1
  <2> DEFINE t == Append(left, e)
  <2>1. j.pairs = t /\ j.tail = FALSE BY <1>11, <1>12 DEF Appended
  <2>2. /\ t \in Seq(S) /\ Len(t) = Len(left) + 1 /\ t[Len(left) + 1] = e
        /\ \A n \in 1 .. Len(left) : t[n] = left[n]
        /\ DOMAIN t = 1 .. Len(t)
    <3> HIDE DEF S, e
    <3> QED BY <1>1, <1>2, AppendProperties, LenProperties
  <2>3. /\ \A k : Holds(t, k) <=> Holds(left, k) \/ e.key = k
        /\ \A k, w : Gives(t, k, w) <=> \/ Gives(left, k, w)
                                        \/ ~Holds(left, k) /\ e.key = k /\ e.val = w
    <3> HIDE DEF S, e
    <3> QED BY <1>1, <1>2, LookupAppend
  <2>4. PairsSize(t) = PairsSize(left) + PairSize + e.val.size
    <3> HIDE DEF e
    <3> QED BY <1>1, <1>2, SizeAppend
  <2>5. \A K : key \notin K => Filter(t, Pairs(K)) = Filter(left, Pairs(K))
    <3> SUFFICES ASSUME NEW K, key \notin K PROVE Filter(t, Pairs(K)) = Filter(left, Pairs(K))
      OBVIOUS
    <3>1. e \notin Pairs(K) BY DEF Pairs
    <3> DEFINE P == Pairs(K)
    <3>2. e \notin P BY <3>1
    <3>3. Filter(t, P) = Filter(left, P)
      <4> HIDE DEF S, e, P
      <4> QED BY <1>1, <1>2, <3>2, FilterAppend
    <3> QED BY <3>3
  <2>6. e.key = key /\ e.val = v OBVIOUS
  <2> HIDE DEF t, e
  <2>7. IsInfo(j)
    <3>1. \A n \in 1 .. Len(t) : IsValue(t[n].key, t[n].val)
      <4> SUFFICES ASSUME NEW n \in 1 .. Len(t) PROVE IsValue(t[n].key, t[n].val) OBVIOUS
      <4>1. CASE n = Len(left) + 1 BY <2>2, <2>6, <4>1
      <4>2. CASE n # Len(left) + 1
        <5>1. n \in 1 .. Len(left) BY <1>2, <2>2, <4>2
        <5> QED BY <5>1, <1>6, <2>2
      <4> QED BY <4>1, <4>2
    <3> QED BY <2>1, <2>2, <3>1 DEF IsInfo
  <2>8. Len(j.pairs) \in Nat BY <1>2, <2>1, <2>2
  <2>9. ASSUME NEW k \in Keys \ {key} PROVE Same(i, j, k)
    <3>1. Holds(t, k) <=> Holds(i.pairs, k) BY <1>7, <2>3, <2>6
    <3>2. \A w : Gives(t, k, w) <=> Gives(i.pairs, k, w) BY <1>7, <2>3, <2>6
    <3> QED BY <1>2, <2>1, <2>8, <3>1, <3>2, SameLemma
  <2>10. Has(j, key) /\ Info_Value(j, key) = v
    <3>1. Holds(t, key) /\ Gives(t, key, v) BY <1>7, <2>3, <2>6
    <3>2. Has(j, key) /\ Gives(t, key, Info_Value(j, key)) BY <2>1, <2>8, <3>1, LookupLemma
    <3> QED BY <2>1, <2>8, <3>1, <3>2, GivesOne
  <2>11. Has(i, key) => Len(j.pairs) <= Len(i.pairs) BY <1>2, <1>4, <2>1, <2>2
  <2>12. PairsSize(j.pairs) <= PairsSize(i.pairs) + PairSize + v.size
    BY <1>8, <1>9, <2>1, <2>4, <2>6
  <2>13. \A K : key \notin K => Filter(j.pairs, Pairs(K)) = Filter(i.pairs, Pairs(K))
    BY <1>10, <2>1, <2>5
  <2> QED BY <2>7, <2>9, <2>10, <2>11, <2>12, <2>13 DEF j
<1>13. CASE ~(v.size > 0 /\ PairsSize(left) + PairSize + v.size < Buffer - 1)
  <2>1. j.pairs = left /\ j.tail = FALSE BY <1>11, <1>13 DEF Appended
  <2>2. IsInfo(j)
    <3>1. DOMAIN left = 1 .. Len(left) BY <1>2, LenProperties
    <3> QED BY <1>2, <1>6, <2>1, <3>1 DEF IsInfo
  <2>3. ASSUME NEW k \in Keys \ {key} PROVE Same(i, j, k)
    BY <1>2, <1>7, <2>1, SameLemma
  <2>4. ~Has(j, key) BY <1>2, <1>7, <2>1, LookupLemma
  <2>5. ~(v.size > 0 /\ PairsSize(i.pairs) + PairSize + v.size < Buffer - 1)
    <3>1. Buffer \in Int BY InfoNumbers
    <3> QED BY <1>8, <1>9, <1>13, <3>1
  <2>6. PairsSize(j.pairs) <= PairsSize(i.pairs) + PairSize + v.size
    BY <1>8, <1>9, <2>1
  <2> QED BY <1>2, <1>4, <1>10, <2>1, <2>2, <2>3, <2>4, <2>5, <2>6 DEF j
<1> QED BY <1>12, <1>13

-----------------------------------------------------------------------------
(* One key sanitized.  At most this long is what its value is replaced by. *)
Most(key) == IF key = "name" THEN MaxName ELSE DefaultSize[key]
Refilled == {"model", "forcepowers", "name"}

Cheating(i) == Has(i, "model") /\ Info_Value(i, "model").is = "cheat"

LEMMA ValueLemma ==
    ASSUME NEW i, IsInfo(i), NEW key \in Keys, Has(i, key)
    PROVE  Info_Value(i, key) \in Values /\ IsValue(key, Info_Value(i, key))
<1> DEFINE n == First(i, key)
<1>1. Len(i.pairs) \in Nat /\ DOMAIN i.pairs = 1 .. Len(i.pairs)
      /\ \A k \in 1 .. Len(i.pairs) : i.pairs[k] \in Pairs(Keys)
  <2>1. i.pairs \in Seq(Pairs(Keys)) BY DEF IsInfo
  <2> QED BY <2>1, LenProperties, ElementOfSeq
<1>2. n \in 1 .. Len(i.pairs) /\ Info_Value(i, key) = i.pairs[n].val /\ i.pairs[n].key = key
  BY <1>1, LookupLemma
<1> HIDE DEF n
<1>3. i.pairs[n].val \in Values BY <1>1, <1>2 DEF Pairs
<1>4. IsValue(i.pairs[n].key, i.pairs[n].val) BY <1>1, <1>2 DEF IsInfo
<1> QED BY <1>2, <1>3, <1>4

(* A replacement is a value of its key, one that the game accepts, and one *)
(* that takes room if there is one to be found again.                      *)
LEMMA ReplacementLemma ==
    ASSUME NEW key \in Checked, NEW v \in Values
    PROVE  LET r == Replacement(key, v)
           IN  /\ r \in Values /\ IsValue(key, r) /\ Acceptable(key, r)
               /\ key \in Refilled => r.size \in 1 .. Most(key)
               /\ key = "name" => r.text = CleanName(v.text)
<1>1. CASE key = "name"
  <2> DEFINE c == CleanName(v.text)
  <2>1. v.text \in Seq(Chars) BY DEF Values
  <2>2. c \in Seq(Chars) /\ Len(c) \in 1 .. MaxName /\ \A i \in DOMAIN c : c[i] # "ctl"
    BY <2>1, CleanNameLemma
  <2>3. Replacement(key, v) = Name(c) BY <1>1, InfoNumbers DEF Replacement
  <2> HIDE DEF c
  <2>4. Name(c) = [is |-> "text", text |-> c, size |-> Len(c)] BY DEF Name
  <2>5. MaxName \in Nat BY InfoNumbers
  <2>6. Len(c) \in Nat BY <2>2, <2>5
  <2>7. Name(c) \in Values /\ Name(c).size = Len(c) /\ Name(c).text = c
    BY <2>2, <2>4, <2>6 DEF Values
  <2>8. IsValue(key, Name(c))
    <3>1. Name(c) = Name(Name(c).text) /\ Name(c).is # "cheat" BY <2>4, <2>7
    <3> QED BY <1>1, <3>1 DEF IsValue
  <2>9. Acceptable(key, Name(c)) BY <1>1, <2>2, <2>7 DEF Acceptable
  <2> QED BY <1>1, <2>2, <2>3, <2>7, <2>8, <2>9 DEF Most, c
<1>2. CASE key \in {"model", "forcepowers"}
  <2> DEFINE d == DefaultSize[key]
  <2>1. Replacement(key, v) = Plain("good", d) BY <1>2, InfoNumbers DEF Replacement
  <2>2. d \in Nat \ {0} /\ MaxName \in Nat BY <1>2, InfoNumbers
  <2>3. Most(key) = d BY <1>2 DEF Most
  <2> HIDE DEF d
  <2>4. Plain("good", d) = [is |-> "good", text |-> <<>>, size |-> d] BY DEF Plain
  <2>5. Plain("good", d) \in Values
    <3> DEFINE none == <<>>
    <3>1. none \in Seq(Chars) OBVIOUS
    <3>2. Plain("good", d) = [is |-> "good", text |-> none, size |-> d] /\ d \in Nat
      BY <2>2, <2>4
    <3> HIDE DEF none
    <3> QED BY <3>1, <3>2 DEF Values
  <2> QED BY <1>2, <2>1, <2>2, <2>3, <2>4, <2>5 DEF IsValue, Acceptable
<1>3. CASE key \in {"siegeclass", "saber1", "saber2"}
  <2>1. Replacement(key, v) = Nothing BY <1>3, InfoNumbers DEF Replacement
  <2>2. Nothing = [is |-> "good", text |-> <<>>, size |-> 0] BY DEF Nothing, Plain
  <2>3. Nothing \in Values
    <3>1. <<>> \in Seq(Chars) OBVIOUS
    <3> QED BY <2>2, <3>1 DEF Values
  <2> QED BY <1>3, <2>1, <2>2, <2>3 DEF IsValue, Acceptable, Refilled
<1> QED BY <1>1, <1>2, <1>3 DEF Checked

LEMMA SanitizeLemma ==
    ASSUME NEW i, IsInfo(i), NEW key \in Checked
    PROVE  LET j == Sanitize(i, key)
           IN  /\ IsInfo(j) /\ Len(j.pairs) <= Len(i.pairs)
               /\ \A k \in Keys \ {key} : Same(i, j, k)
               /\ Has(j, key) /\ ~(key = "model" /\ Cheating(i)) =>
                    Acceptable(key, Info_Value(j, key))
               /\ ~IsDirty(i, key) => j = i
               /\ IsDirty(i, key) => \A K : key \notin K =>
                    Filter(j.pairs, Pairs(K)) = Filter(i.pairs, Pairs(K))
               /\ key \in Refilled =>
                    /\ PairsSize(j.pairs) <= PairsSize(i.pairs) + PairSize + Most(key)
                    /\ /\ Has(i, key)
                       /\ PairsSize(i.pairs) + PairSize + Most(key) < Buffer - 1
                       => Has(j, key)
               /\ key = "name" /\ Has(j, key) =>
                    Has(i, key) /\ Info_Value(j, key).text = CleanName(Info_Value(i, key).text)
<1> DEFINE j == Sanitize(i, key)
           v == Info_Value(i, key)
           r == Replacement(key, v)
<1>1. key \in Keys /\ i.pairs \in Seq(Pairs(Keys)) BY DEF Keys, IsInfo
<1>2. Len(i.pairs) \in Nat /\ PairsSize(i.pairs) \in Nat BY <1>1, LenProperties, SizeType
<1>3. /\ PairSize \in Nat /\ Buffer \in Nat
      /\ key \in Refilled => Most(key) \in Nat
  BY InfoNumbers DEF Most, Refilled
<1>4. CASE IsDirty(i, key)
  <2>1. Has(i, key) /\ j = Info_Set(i, key, r) BY <1>4 DEF IsDirty, Sanitize
  <2>2. v \in Values BY <1>1, <2>1, ValueLemma
  <2>3. /\ r \in Values /\ IsValue(key, r) /\ Acceptable(key, r)
        /\ key \in Refilled => r.size \in 1 .. Most(key)
        /\ key = "name" => r.text = CleanName(v.text)
    BY <2>2, ReplacementLemma
  <2> HIDE DEF r, j
  <2>4. /\ IsInfo(j)
        /\ Has(i, key) => Len(j.pairs) <= Len(i.pairs)
        /\ \A k \in Keys \ {key} : Same(i, j, k)
        /\ Has(j, key) => Info_Value(j, key) = r
        /\ PairsSize(j.pairs) <= PairsSize(i.pairs) + PairSize + r.size
        /\ r.size > 0 /\ PairsSize(i.pairs) + PairSize + r.size < Buffer - 1 => Has(j, key)
        /\ \A K : key \notin K => Filter(j.pairs, Pairs(K)) = Filter(i.pairs, Pairs(K))
    BY <1>1, <2>1, <2>3, Info_SetLemma
  <2>5. r.size \in Nat BY <2>3 DEF Values
  <2>6. PairsSize(j.pairs) \in Nat BY <2>4, SizeType DEF IsInfo
  <2>7. ASSUME key \in Refilled
        PROVE  /\ PairsSize(j.pairs) <= PairsSize(i.pairs) + PairSize + Most(key)
               /\ PairsSize(i.pairs) + PairSize + Most(key) < Buffer - 1 => Has(j, key)
    <3>1. r.size > 0 /\ r.size <= Most(key) /\ Most(key) \in Nat BY <1>3, <2>3, <2>7
    <3>2. PairsSize(j.pairs) <= PairsSize(i.pairs) + PairSize + Most(key)
      BY <1>2, <1>3, <2>4, <2>5, <2>6, <3>1
    <3>3. ASSUME PairsSize(i.pairs) + PairSize + Most(key) < Buffer - 1 PROVE Has(j, key)
      <4>1. PairsSize(i.pairs) + PairSize + r.size < Buffer - 1
        BY <1>2, <1>3, <2>5, <3>1, <3>3
      <4> QED BY <2>4, <3>1, <4>1
    <3> QED BY <3>2, <3>3
  <2>8. Has(j, key) => Acceptable(key, Info_Value(j, key)) BY <2>3, <2>4
  <2>9. key = "name" /\ Has(j, key) => Info_Value(j, key).text = CleanName(v.text)
    BY <2>3, <2>4
  <2> HIDE DEF v
  <2> QED BY <1>4, <2>1, <2>4, <2>7, <2>8, <2>9 DEF j, v
<1>5. CASE ~IsDirty(i, key)
  <2>1. j = i BY <1>5 DEF Sanitize
  <2>2. \A k : Same(i, j, k) BY <2>1 DEF Same
  <2>3. key = "name" /\ Has(j, key) => v.text = CleanName(v.text)
    BY <1>5, <2>1 DEF IsDirty, Dirty
  <2>4. ASSUME Has(j, key), ~(key = "model" /\ Cheating(i)) PROVE Acceptable(key, v)
    <3>1. Has(i, key) /\ ~Dirty(key, v) BY <1>5, <2>1, <2>4 DEF IsDirty
    <3>2. v \in Values /\ IsValue(key, v) BY <1>1, <3>1, ValueLemma
    <3>3. CASE key = "name"
      <4>1. v.text \in Seq(Chars) /\ CleanName(v.text) = v.text
        BY <3>1, <3>2, <3>3 DEF Dirty, Values
      <4>2. Len(v.text) \in 1 .. MaxName /\ \A n \in DOMAIN v.text : v.text[n] # "ctl"
        BY <4>1, CleanNameLemma
      <4> QED BY <3>3, <4>2 DEF Acceptable
    <3>4. CASE key # "name"
      <4>1. v.is \in {"good", "bad", "cheat"} /\ v.is # "bad"
        BY <3>1, <3>2, <3>4 DEF Dirty, IsValue
      <4>2. v.is # "cheat" BY <2>4, <3>1, <3>2 DEF IsValue, Cheating
      <4> QED BY <3>4, <4>1, <4>2 DEF Acceptable
    <3> QED BY <3>3, <3>4
  <2>5. key \in Refilled =>
          PairsSize(j.pairs) <= PairsSize(i.pairs) + PairSize + Most(key)
    BY <1>2, <1>3, <2>1
  <2> HIDE DEF v, j
  <2> QED BY <1>2, <1>5, <2>1, <2>2, <2>3, <2>4, <2>5 DEF v, j
<1> QED BY <1>4, <1>5

-----------------------------------------------------------------------------
(* SanitizeUserinfo, key by key: how j comes from i when the keys in K     *)
(* have been seen to.                                                      *)
DirtyKeys(i) == {key \in Checked : IsDirty(i, key)}

Handled(i, j, K) ==
    /\ IsInfo(j) /\ Len(j.pairs) <= Len(i.pairs)
    /\ \A k \in Keys \ K : Same(i, j, k)
    /\ \A k \in K : Has(j, k) => Acceptable(k, Info_Value(j, k))
    /\ \A D : DirtyKeys(i) \cap D = {} => Filter(j.pairs, Pairs(D)) = Filter(i.pairs, Pairs(D))
    /\ "name" \in K /\ Has(j, "name") =>
         Has(i, "name") /\ Info_Value(j, "name").text = CleanName(Info_Value(i, "name").text)

LEMMA HandledStart == ASSUME NEW i, IsInfo(i) PROVE Handled(i, i, {})
<1>1. \A k : Same(i, i, k) BY DEF Same
<1>2. Len(i.pairs) \in Nat
  <2>1. i.pairs \in Seq(Pairs(Keys)) BY DEF IsInfo
  <2> QED BY <2>1, LenProperties
<1> QED BY <1>1, <1>2 DEF Handled

LEMMA HandledStep ==
    ASSUME NEW i, IsInfo(i), ~Cheating(i), NEW j, NEW K, Handled(i, j, K),
           NEW key \in Checked, key \notin K
    PROVE  Handled(i, Sanitize(j, key), K \cup {key})
<1> DEFINE n == Sanitize(j, key)
<1>1. IsInfo(j) /\ key \in Keys /\ Same(i, j, key) BY DEF Handled, Keys
<1>2. IsDirty(j, key) <=> IsDirty(i, key) BY <1>1 DEF IsDirty, Same
<1>3. ~(key = "model" /\ Cheating(j)) BY <1>1 DEF Same, Cheating
<1>4. /\ IsInfo(n) /\ Len(n.pairs) <= Len(j.pairs)
      /\ \A k \in Keys \ {key} : Same(j, n, k)
      /\ Has(n, key) => Acceptable(key, Info_Value(n, key))
      /\ ~IsDirty(j, key) => n = j
      /\ IsDirty(j, key) => \A D : key \notin D =>
            Filter(n.pairs, Pairs(D)) = Filter(j.pairs, Pairs(D))
      /\ key = "name" /\ Has(n, key) =>
            Has(j, key) /\ Info_Value(n, key).text = CleanName(Info_Value(j, key).text)
  BY <1>1, <1>3, SanitizeLemma
<1> HIDE DEF n
<1>5. /\ Len(j.pairs) <= Len(i.pairs)
      /\ \A k \in Keys \ K : Same(i, j, k)
      /\ \A k \in K : Has(j, k) => Acceptable(k, Info_Value(j, k))
      /\ \A D : DirtyKeys(i) \cap D = {} => Filter(j.pairs, Pairs(D)) = Filter(i.pairs, Pairs(D))
      /\ "name" \in K /\ Has(j, "name") =>
            Has(i, "name") /\ Info_Value(j, "name").text = CleanName(Info_Value(i, "name").text)
  BY DEF Handled
<1>6. Len(n.pairs) <= Len(i.pairs)
  <2>1. Len(n.pairs) \in Nat /\ Len(j.pairs) \in Nat /\ Len(i.pairs) \in Nat
    <3>1. /\ n.pairs \in Seq(Pairs(Keys)) /\ j.pairs \in Seq(Pairs(Keys))
          /\ i.pairs \in Seq(Pairs(Keys))
      BY <1>1, <1>4 DEF IsInfo
    <3> QED BY <3>1, LenProperties
  <2> QED BY <1>4, <1>5, <2>1
<1>7. ASSUME NEW k \in Keys \ (K \cup {key}) PROVE Same(i, n, k)
  <2>1. Same(i, j, k) /\ Same(j, n, k) BY <1>4, <1>5
  <2> QED BY <2>1 DEF Same
<1>8. ASSUME NEW k \in K \cup {key}, Has(n, k) PROVE Acceptable(k, Info_Value(n, k))
  <2>1. CASE k = key BY <1>4, <1>8, <2>1
  <2>2. CASE k # key
    <3>1. CASE k \in Keys
      <4>1. Same(j, n, k) /\ k \in K BY <1>4, <2>2, <3>1
      <4> QED BY <1>5, <1>8, <4>1 DEF Same
    <3>2. CASE k \notin Keys
      <4>1. Len(n.pairs) \in Nat /\ \A m \in 1 .. Len(n.pairs) : n.pairs[m] \in Pairs(Keys)
        <5>1. n.pairs \in Seq(Pairs(Keys)) BY <1>4 DEF IsInfo
        <5> QED BY <5>1, LenProperties, ElementOfSeq
      <4>2. PICK m \in 1 .. Len(n.pairs) : n.pairs[m].key = k
        BY <1>8, <4>1, LookupLemma
      <4>3. n.pairs[m].key \in Keys BY <4>1 DEF Pairs
      <4> QED BY <3>2, <4>2, <4>3
    <3> QED BY <3>1, <3>2
  <2> QED BY <2>1, <2>2
<1>9. ASSUME NEW D, DirtyKeys(i) \cap D = {}
      PROVE  Filter(n.pairs, Pairs(D)) = Filter(i.pairs, Pairs(D))
  <2>1. Filter(j.pairs, Pairs(D)) = Filter(i.pairs, Pairs(D)) BY <1>5, <1>9
  <2>2. CASE IsDirty(j, key)
    <3>1. key \notin D BY <1>2, <1>9, <2>2 DEF DirtyKeys
    <3> QED BY <1>4, <2>1, <2>2, <3>1
  <2>3. CASE ~IsDirty(j, key) BY <1>4, <2>1, <2>3
  <2> QED BY <2>2, <2>3
<1>10. ASSUME "name" \in K \cup {key}, Has(n, "name")
       PROVE  Has(i, "name") /\ Info_Value(n, "name").text = CleanName(Info_Value(i, "name").text)
  <2>1. CASE key = "name" BY <1>1, <1>4, <1>10, <2>1 DEF Same
  <2>2. CASE key # "name"
    <3>1. Same(j, n, "name") /\ "name" \in K BY <1>4, <1>10, <2>2 DEF Keys, Checked
    <3> QED BY <1>5, <1>10, <3>1 DEF Same
  <2> QED BY <2>1, <2>2
<1>11. Handled(i, n, K \cup {key}) BY <1>4, <1>6, <1>7, <1>8, <1>9, <1>10 DEF Handled
<1> QED BY <1>11 DEF n

LEMMA SanitizeUserinfoLemma ==
    ASSUME NEW i, IsInfo(i), ~Cheating(i)
    PROVE  Handled(i, SanitizeUserinfo(i), Checked)
<1> DEFINE model == Sanitize(i, "model")
           powers == Sanitize(model, "forcepowers")
           name == Sanitize(powers, "name")
           class == Sanitize(name, "siegeclass")
           saber1 == Sanitize(class, "saber1")
           saber2 == Sanitize(saber1, "saber2")
<1>1. /\ "model" \in Checked /\ "forcepowers" \in Checked /\ "name" \in Checked
      /\ "siegeclass" \in Checked /\ "saber1" \in Checked /\ "saber2" \in Checked
  BY DEF Checked
<1>2. Handled(i, model, {"model"})
  <2>1. Handled(i, model, {} \cup {"model"}) BY <1>1, HandledStart, HandledStep
  <2> QED BY <2>1
<1>3. Handled(i, powers, {"model", "forcepowers"})
  <2>1. Handled(i, powers, {"model"} \cup {"forcepowers"})
    <3> HIDE DEF model
    <3> QED BY <1>1, <1>2, HandledStep
  <2>2. {"model"} \cup {"forcepowers"} = {"model", "forcepowers"} OBVIOUS
  <2> HIDE DEF powers
  <2> QED BY <2>1, <2>2
<1>4. Handled(i, name, {"model", "forcepowers", "name"})
  <2>1. Handled(i, name, {"model", "forcepowers"} \cup {"name"})
    <3> HIDE DEF powers
    <3> QED BY <1>1, <1>3, HandledStep
  <2>2. {"model", "forcepowers"} \cup {"name"} = {"model", "forcepowers", "name"} OBVIOUS
  <2> HIDE DEF name
  <2> QED BY <2>1, <2>2
<1>5. Handled(i, class, {"model", "forcepowers", "name", "siegeclass"})
  <2>1. Handled(i, class, {"model", "forcepowers", "name"} \cup {"siegeclass"})
    <3> HIDE DEF name
    <3> QED BY <1>1, <1>4, HandledStep
  <2>2. {"model", "forcepowers", "name"} \cup {"siegeclass"}
          = {"model", "forcepowers", "name", "siegeclass"} OBVIOUS
  <2> HIDE DEF class
  <2> QED BY <2>1, <2>2
<1>6. Handled(i, saber1, {"model", "forcepowers", "name", "siegeclass", "saber1"})
  <2>1. Handled(i, saber1, {"model", "forcepowers", "name", "siegeclass"} \cup {"saber1"})
    <3> HIDE DEF class
    <3> QED BY <1>1, <1>5, HandledStep
  <2>2. {"model", "forcepowers", "name", "siegeclass"} \cup {"saber1"}
          = {"model", "forcepowers", "name", "siegeclass", "saber1"} OBVIOUS
  <2> HIDE DEF saber1
  <2> QED BY <2>1, <2>2
<1>7. Handled(i, saber2, Checked)
  <2>1. Handled(i, saber2, {"model", "forcepowers", "name", "siegeclass", "saber1"} \cup {"saber2"})
    <3> HIDE DEF saber1
    <3> QED BY <1>1, <1>6, HandledStep
  <2>2. {"model", "forcepowers", "name", "siegeclass", "saber1"} \cup {"saber2"} = Checked
    BY DEF Checked
  <2> HIDE DEF saber2
  <2> QED BY <2>1, <2>2
<1>8. SanitizeUserinfo(i) = saber2 BY DEF SanitizeUserinfo
<1> QED BY <1>7, <1>8

(* The buffer holds the replacements of all three keys that are refilled.  *)
LEMMA RefillLemma ==
    ASSUME NEW i, IsInfo(i), PairsSize(i.pairs) < MaxInfo,
           NEW key \in Refilled, Has(i, key)
    PROVE  Has(SanitizeUserinfo(i), key)
<1> DEFINE model == Sanitize(i, "model")
           powers == Sanitize(model, "forcepowers")
           name == Sanitize(powers, "name")
           class == Sanitize(name, "siegeclass")
           saber1 == Sanitize(class, "saber1")
           saber2 == Sanitize(saber1, "saber2")
           M == DefaultSize["model"]
           P == DefaultSize["forcepowers"]
<1>1. /\ "model" \in Checked /\ "forcepowers" \in Checked /\ "name" \in Checked
      /\ "siegeclass" \in Checked /\ "saber1" \in Checked /\ "saber2" \in Checked
      /\ "model" \in Refilled /\ "forcepowers" \in Refilled /\ "name" \in Refilled
      /\ key \in Keys /\ key \in {"model", "forcepowers", "name"}
  BY DEF Checked, Refilled, Keys
<1>2. Most("model") = M /\ Most("forcepowers") = P /\ Most("name") = MaxName BY DEF Most
<1>3. /\ PairSize \in Nat /\ M \in Nat /\ P \in Nat /\ MaxName \in Nat /\ MaxInfo \in Nat
      /\ Buffer \in Nat /\ Buffer > MaxInfo + 3 * PairSize + MaxName + M + P
  BY InfoNumbers
<1> HIDE DEF M, P
<1>4. ASSUME NEW j, IsInfo(j) PROVE PairsSize(j.pairs) \in Nat
  BY <1>4, SizeType DEF IsInfo
<1>5. ASSUME NEW j, NEW k \in Checked, IsInfo(j)
      PROVE  /\ IsInfo(Sanitize(j, k))
             /\ k # key /\ Has(j, key) => Has(Sanitize(j, k), key)
             /\ k \in Refilled =>
                  /\ PairsSize(Sanitize(j, k).pairs) <= PairsSize(j.pairs) + PairSize + Most(k)
                  /\ Has(j, k) /\ PairsSize(j.pairs) + PairSize + Most(k) < Buffer - 1 =>
                       Has(Sanitize(j, k), k)
  BY <1>1, <1>5, SanitizeLemma DEF Same
<1>6. /\ IsInfo(model) /\ Has(model, key)
      /\ PairsSize(model.pairs) < MaxInfo + PairSize + M
  <2>1. PairsSize(i.pairs) \in Nat BY <1>4
  <2>2. PairsSize(i.pairs) + PairSize + M < Buffer - 1 BY <2>1, <1>3
  <2>3. IsInfo(model) /\ PairsSize(model.pairs) <= PairsSize(i.pairs) + PairSize + M
    BY <1>1, <1>2, <1>5
  <2>4. Has(model, key)
    <3>1. CASE key = "model" BY <1>1, <1>2, <1>5, <2>2, <3>1
    <3>2. CASE key # "model" BY <1>1, <1>5, <3>2
    <3> QED BY <3>1, <3>2
  <2> HIDE DEF model
  <2>5. PairsSize(model.pairs) \in Nat BY <2>3, <1>4
  <2> QED BY <2>1, <2>3, <2>4, <2>5, <1>3
<1> HIDE DEF model
<1>7. /\ IsInfo(powers) /\ Has(powers, key)
      /\ PairsSize(powers.pairs) < MaxInfo + 2 * PairSize + M + P
  <2>1. PairsSize(model.pairs) \in Nat BY <1>4, <1>6
  <2>2. PairsSize(model.pairs) + PairSize + P < Buffer - 1 BY <2>1, <1>3, <1>6
  <2>3. IsInfo(powers) /\ PairsSize(powers.pairs) <= PairsSize(model.pairs) + PairSize + P
    BY <1>1, <1>2, <1>5, <1>6
  <2>4. Has(powers, key)
    <3>1. CASE key = "forcepowers" BY <1>1, <1>2, <1>5, <1>6, <2>2, <3>1
    <3>2. CASE key # "forcepowers" BY <1>1, <1>5, <1>6, <3>2
    <3> QED BY <3>1, <3>2
  <2> HIDE DEF powers
  <2>5. PairsSize(powers.pairs) \in Nat BY <2>3, <1>4
  <2> QED BY <2>1, <2>3, <2>4, <2>5, <1>3, <1>6
<1> HIDE DEF powers
<1>8. IsInfo(name) /\ Has(name, key)
  <2>1. PairsSize(powers.pairs) \in Nat BY <1>4, <1>7
  <2>2. PairsSize(powers.pairs) + PairSize + MaxName < Buffer - 1 BY <2>1, <1>3, <1>7
  <2>3. CASE key = "name" BY <1>1, <1>2, <1>5, <1>7, <2>2, <2>3
  <2>4. CASE key # "name" BY <1>1, <1>5, <1>7, <2>4
  <2> QED BY <2>3, <2>4
<1> HIDE DEF name
<1>9. IsInfo(class) /\ Has(class, key) BY <1>1, <1>5, <1>8
<1> HIDE DEF class
<1>10. IsInfo(saber1) /\ Has(saber1, key) BY <1>1, <1>5, <1>9
<1> HIDE DEF saber1
<1>11. Has(saber2, key) BY <1>1, <1>5, <1>10
<1> QED BY <1>11 DEF SanitizeUserinfo, model, powers, name, class, saber1

-----------------------------------------------------------------------------
(* What the game knows after some calls. *)
Views == {"free", "connected", "active"}

AfterSteps(calls, F) ==
    /\ F[0] = game
    /\ \A n \in 1 .. Len(calls) : F[n] = Knows(F[n - 1], calls[n])

LEMMA AfterUnfold ==
    ASSUME NEW S, NEW calls \in Seq(S), game \in Views
    PROVE  \E F : AfterSteps(calls, F) /\ After(calls) = F[Len(calls)]
<1> DEFINE N == Len(calls)
           D == [n \in 1 .. N |-> [x \in Views |-> Knows(x, calls[n])]]
           Body(g, n) == IF n = 0 THEN game ELSE Knows(g[n - 1], calls[n])
           Fcn(g) == [n \in 0 .. N |-> Body(g, n)]
           Upto == CHOOSE g : g = Fcn(g)
<1>1. N \in Nat BY LenProperties
<1>2. \A n \in 1 .. N, x \in Views : D[n][x] \in Views BY DEF Knows, Views
<1>3. PICK f : IsRun(N, Views, game, D, f)
  <2> HIDE DEF D, N
  <2> QED BY <1>1, <1>2, RecursionExists
<1>4. f = Fcn(f)
  <2>1. f \in [0 .. N -> Views] /\ f[0] = game /\ \A n \in 1 .. N : f[n] = D[n][f[n - 1]]
    BY <1>3 DEF IsRun
  <2>2. ASSUME NEW n \in 0 .. N PROVE f[n] = Body(f, n)
    <3>1. CASE n = 0 BY <2>1, <3>1
    <3>2. CASE n # 0
      <4>1. n \in 1 .. N /\ n - 1 \in 0 .. N BY <1>1, <3>2
      <4>2. f[n - 1] \in Views BY <2>1, <4>1
      <4> QED BY <2>1, <3>2, <4>1, <4>2
    <3> QED BY <3>1, <3>2
  <2> HIDE DEF Body
  <2> QED BY <2>1, <2>2
<1>5. Upto = Fcn(Upto)
  <2> HIDE DEF Fcn
  <2> QED BY <1>4
<1>6. After(calls) = Upto[N] BY DEF After
<1> HIDE DEF Upto
<1>7. Upto[0] = game BY <1>1, <1>5
<1>8. ASSUME NEW n \in 1 .. N PROVE Upto[n] = Knows(Upto[n - 1], calls[n])
  <2>1. n \in 0 .. N /\ n # 0 BY <1>1
  <2>2. Upto[n] = Fcn(Upto)[n] BY <1>5
  <2> HIDE DEF N
  <2> QED BY <2>1, <2>2
<1> QED BY <1>6, <1>7, <1>8 DEF AfterSteps

LEMMA AfterNone == ASSUME game \in Views PROVE After(<<>>) = game
<1> DEFINE e == <<>>
<1>1. e \in Seq({}) /\ Len(e) = 0 OBVIOUS
<1> HIDE DEF e
<1>2. PICK F : AfterSteps(e, F) /\ After(e) = F[Len(e)] BY <1>1, AfterUnfold
<1>3. After(e) = game BY <1>1, <1>2 DEF AfterSteps
<1> QED BY <1>3 DEF e

LEMMA AfterOne == ASSUME game \in Views, NEW a PROVE After(<<a>>) = Knows(game, a)
<1> DEFINE e == <<a>>
<1>1. e \in Seq({a}) /\ Len(e) = 1 /\ e[1] = a OBVIOUS
<1> HIDE DEF e
<1>2. PICK F : AfterSteps(e, F) /\ After(e) = F[Len(e)] BY <1>1, AfterUnfold
<1>3. F[0] = game /\ F[1] = Knows(F[1 - 1], e[1]) /\ After(e) = F[1] /\ 1 - 1 = 0
  <2>1. 1 \in 1 .. Len(e) BY <1>1
  <2> QED BY <1>1, <1>2, <2>1 DEF AfterSteps
<1>4. After(e) = Knows(game, a) BY <1>1, <1>3
<1> QED BY <1>4 DEF e

LEMMA AfterTwo ==
    ASSUME game \in Views, NEW a, NEW b PROVE After(<<a, b>>) = Knows(Knows(game, a), b)
<1> DEFINE e == <<a, b>>
<1>1. e \in Seq({a, b}) /\ Len(e) = 2 /\ e[1] = a /\ e[2] = b OBVIOUS
<1> HIDE DEF e
<1>2. PICK F : AfterSteps(e, F) /\ After(e) = F[Len(e)] BY <1>1, AfterUnfold
<1>3. /\ F[0] = game /\ F[1] = Knows(F[1 - 1], e[1]) /\ F[2] = Knows(F[2 - 1], e[2])
      /\ After(e) = F[2] /\ 1 - 1 = 0 /\ 2 - 1 = 1
  <2>1. 1 \in 1 .. Len(e) /\ 2 \in 1 .. Len(e) BY <1>1
  <2> QED BY <1>1, <1>2, <2>1 DEF AfterSteps
<1>4. After(e) = Knows(Knows(game, a), b) BY <1>1, <1>3
<1> QED BY <1>4 DEF e

-----------------------------------------------------------------------------
(* Who is there, and what has been heard. *)
CallInv ==
    /\ scene \in Scenes
    /\ client \in Views /\ game = client
    /\ heard \in Seq(Calls)
    /\ real => wrapper /\ lib
    /\ heard # <<>> => real
    /\ last.call \in {"none", "command", "usercmd", "token", "send", "configstring", "siege"}

LEMMA CallInit == Init => CallInv
<1> SUFFICES ASSUME Init PROVE CallInv OBVIOUS
<1>1. PICK on \in Given[scene].running :
        /\ wrapper = on /\ real = on /\ entry = on
        /\ lib \in {TRUE, on}
        /\ client = (IF on THEN "active" ELSE "free") /\ game = client
  BY DEF Init
<1>2. scene \in Scenes /\ heard = <<>> /\ last = Nobody BY DEF Init
<1>3. on \in BOOLEAN BY <1>1, <1>2, BoundaryAssumption
<1>4. heard \in Seq(Calls) BY <1>2
<1>5. last.call = "none" BY <1>2 DEF Nobody
<1>6. real => wrapper /\ lib BY <1>1, <1>3
<1>7. client \in Views BY <1>1 DEF Views
<1> QED BY <1>1, <1>2, <1>4, <1>5, <1>6, <1>7 DEF CallInv

(* What a call of vmMain must be for the game to be in step. *)
InStep(calls, c) ==
    /\ calls \in Seq(Calls)
    /\ After(calls) = c
    /\ \A k \in DOMAIN calls :
         LET before == After(SubSeq(calls, 1, k - 1)) IN
         /\ calls[k] \in {"begin", "command", "userinfo"} => before # "free"
         /\ calls[k] = "connect" => before = "free"

LEMMA NoCall == ASSUME game \in Views PROVE InStep(<<>>, game)
<1>1. <<>> \in Seq(Calls) /\ DOMAIN <<>> = {}  OBVIOUS
<1> QED BY <1>1, AfterNone DEF InStep

LEMMA OneCall ==
    ASSUME game \in Views, NEW a \in Calls,
           a \in {"begin", "command", "userinfo"} => game # "free",
           a = "connect" => game = "free"
    PROVE  InStep(<<a>>, Knows(game, a))
<1> DEFINE calls == <<a>>
<1>1. calls \in Seq(Calls) /\ DOMAIN calls = {1} /\ calls[1] = a OBVIOUS
<1>2. SubSeq(calls, 1, 1 - 1) = <<>> OBVIOUS
<1>3. After(SubSeq(calls, 1, 1 - 1)) = game BY <1>2, AfterNone
<1>4. After(calls) = Knows(game, a) BY AfterOne
<1> HIDE DEF calls
<1>5. InStep(calls, Knows(game, a)) BY <1>1, <1>3, <1>4 DEF InStep
<1> QED BY <1>5 DEF calls

LEMMA DropCall ==
    ASSUME game \in Views PROVE InStep(<<"frame", "disconnect">>, "free")
<1> DEFINE calls == <<"frame", "disconnect">>
<1>1. calls \in Seq(Calls) /\ DOMAIN calls = {1, 2} /\ calls[1] = "frame" /\ calls[2] = "disconnect"
  BY DEF Calls
<1>2. After(calls) = "free" BY AfterTwo DEF Knows
<1> HIDE DEF calls
<1>3. InStep(calls, "free") BY <1>1, <1>2 DEF InStep
<1> QED BY <1>3 DEF calls

LEMMA VmMainCall ==
    ASSUME CallInv, NEW calls, VmMain(calls), InStep(calls, client'), client' \in Views,
           last'.call \in {"none", "command"}
    PROVE  CallInv' /\ InStep(heard', client')
<1>1. /\ heard' = calls /\ game' = After(calls) /\ wrapper' = wrapper /\ lib' = lib
      /\ scene' = scene /\ wrapper /\ Finds /\ real' = Finds
  BY DEF VmMain, LoadReal
<1>2. calls \in Seq(Calls) /\ After(calls) = client' BY DEF InStep
<1>3. lib BY <1>1 DEF Finds, CallInv
<1> QED BY <1>1, <1>2, <1>3 DEF CallInv

LEMMA CallNext == CallInv /\ Next => CallInv' /\ InStep(heard', client')
<1> SUFFICES ASSUME CallInv, Next PROVE CallInv' /\ InStep(heard', client') OBVIOUS
<1>1. game \in Views /\ client = game BY DEF CallInv
<1>2. {"frame", "connect", "begin", "command", "userinfo", "disconnect"} = Calls BY DEF Calls
<1>3. InStep(<<>>, game) BY <1>1, NoCall
<1>4. /\ \A a \in {"frame", "userinfo", "command"} : Knows(game, a) = game
      /\ Knows(game, "connect") = "connected" /\ Knows(game, "begin") = "active"
      /\ Knows(game, "disconnect") = "free"
  BY DEF Knows
<1>5. "free" \in Views /\ "active" \in Views /\ "connected" \in Views BY DEF Views
<1>6. Nobody.call = "none" /\ \A line : Judged(line).call = "command" BY DEF Nobody, Judged
<1>7. ASSUME UNCHANGED <<scene, lib, wrapper, real, client, game>>, heard' = <<>>,
             last'.call \in {"none", "command", "usercmd", "token", "send", "configstring", "siege"}
      PROVE  CallInv' /\ InStep(heard', client')
  <2>1. heard' \in Seq(Calls) BY <1>7
  <2>2. InStep(heard', client') BY <1>1, <1>3, <1>7
  <2>3. CallInv'
    <3> DEFINE h == heard'
    <3> QED BY <2>1, <1>7 DEF CallInv
  <2> QED BY <2>2, <2>3
<1>8. CASE DllEntry
  <2>1. heard = <<>> /\ heard' = heard /\ ~wrapper /\ wrapper' = TRUE /\ lib' = lib
        /\ real' = Finds /\ game' = game /\ client' = client /\ scene' = scene /\ last' = last
    BY <1>8 DEF DllEntry, LoadReal, callVars, CallInv
  <2>2. real' => lib' BY <2>1 DEF Finds, CallInv
  <2>3. InStep(heard', client') BY <1>1, <1>3, <2>1
  <2>4. CallInv' BY <2>1, <2>2 DEF CallInv
  <2> QED BY <2>3, <2>4
<1>9. CASE LibAppears
  <2>1. heard = <<>> /\ heard' = heard /\ wrapper' = wrapper /\ lib' = TRUE
        /\ real' = real /\ game' = game /\ client' = client /\ scene' = scene /\ last' = last
    BY <1>9 DEF LibAppears, callVars, CallInv
  <2>2. InStep(heard', client') BY <1>1, <1>3, <2>1
  <2>3. CallInv' BY <2>1 DEF CallInv
  <2> QED BY <2>2, <2>3
<1>10. CASE Frame
  <2>1. InStep(<<"frame">>, client) BY <1>1, <1>2, <1>4, OneCall
  <2> QED BY <1>1, <1>6, <1>10, <2>1, VmMainCall DEF Frame
<1>11. CASE Connect
  <2>1. client = "free" /\ client' = "connected" BY <1>11 DEF Connect
  <2>2. InStep(<<"connect">>, client') BY <1>1, <1>2, <1>4, <2>1, OneCall
  <2> QED BY <1>5, <1>6, <1>11, <2>1, <2>2, VmMainCall DEF Connect
<1>12. ASSUME NEW n, Begin(n) PROVE CallInv' /\ InStep(heard', client')
  <2>1. CASE IsSlot(n)
    <3>1. client = "connected" /\ client' = "active" BY <1>12, <2>1 DEF Begin
    <3>2. InStep(<<"begin">>, client') BY <1>1, <1>2, <1>4, <3>1, OneCall
    <3> QED BY <1>5, <1>6, <1>12, <2>1, <3>1, <3>2, VmMainCall DEF Begin
  <2>2. CASE ~IsSlot(n)
    <3>1. client' = client BY <1>12, <2>2 DEF Begin
    <3> QED BY <1>1, <1>3, <1>6, <1>12, <2>2, <3>1, VmMainCall DEF Begin
  <2> QED BY <2>1, <2>2
<1>13. InStep(<<"disconnect">>, "free")
  BY <1>1, <1>2, <1>4, OneCall
<1>14. CASE Disconnect
  BY <1>5, <1>6, <1>13, <1>14, VmMainCall DEF Disconnect
<1>15. CASE GameDrops
  <2>1. InStep(<<"frame", "disconnect">>, "free") BY <1>1, DropCall
  <2> QED BY <1>5, <1>6, <1>15, <2>1, VmMainCall DEF GameDrops
<1>16. CASE UserinfoRefused
  BY <1>5, <1>6, <1>13, <1>16, VmMainCall DEF UserinfoRefused
<1>17. CASE UserinfoChanged
  <2>1. client # "free" /\ client' = client BY <1>17 DEF UserinfoChanged
  <2>2. InStep(<<"userinfo">>, client) BY <1>1, <1>2, <1>4, <2>1, OneCall
  <2> QED BY <1>1, <1>6, <1>17, <2>1, <2>2, VmMainCall DEF UserinfoChanged
<1>18. CASE SendsAgain
  BY <1>6, <1>7, <1>18 DEF SendsAgain, wrapVars
<1>19. ASSUME NEW line, CheaterDropped(line) PROVE CallInv' /\ InStep(heard', client')
  BY <1>5, <1>6, <1>13, <1>19, VmMainCall DEF CheaterDropped
<1>20. ASSUME NEW line, ClientCommand(line) PROVE CallInv' /\ InStep(heard', client')
  <2>1. client # "free" /\ client' = client /\ last' = Judged(line)
    BY <1>20 DEF ClientCommand
  <2>2. InStep(<<"command">>, client) BY <1>1, <1>2, <1>4, <2>1, OneCall
  <2>3. CASE Judged(line).passed
    BY <1>1, <1>6, <1>20, <2>1, <2>2, <2>3, VmMainCall DEF ClientCommand
  <2>4. CASE ~Judged(line).passed
    BY <1>1, <1>3, <1>6, <1>20, <2>1, <2>4, VmMainCall DEF ClientCommand
  <2> QED BY <2>3, <2>4
<1>21. ASSUME NEW call \in {"usercmd", "token", "send", "configstring", "siege"}, NEW in, NEW out,
              Filters(call, in, out)
       PROVE  CallInv' /\ InStep(heard', client')
  <2>1. last'.call = call BY <1>21 DEF Filters
  <2> QED BY <1>7, <1>21, <2>1 DEF Filters, wrapVars
<1>22. ASSUME NEW cmd, GetUsercmd(cmd) PROVE CallInv' /\ InStep(heard', client')
  BY <1>21, <1>22 DEF GetUsercmd
<1>23. ASSUME NEW t, GetEntityToken(t) PROVE CallInv' /\ InStep(heard', client')
  BY <1>21, <1>23 DEF GetEntityToken
<1>24. ASSUME NEW n, SendServerCommand(n) \/ SiegeFind(n) PROVE CallInv' /\ InStep(heard', client')
  BY <1>21, <1>24 DEF SendServerCommand, SiegeFind
<1>25. ASSUME NEW cs, SetConfigstring(cs) PROVE CallInv' /\ InStep(heard', client')
  BY <1>21, <1>25 DEF SetConfigstring
<1>26. CASE EngineOwn
  <2>1. last'.call \in {"none", "command", "usercmd", "token", "send", "configstring", "siege"}
    BY <1>26 DEF EngineOwn, CallInv
  <2> QED BY <1>7, <1>26, <2>1 DEF EngineOwn, wrapVars
<1> QED
  BY <1>8, <1>9, <1>10, <1>11, <1>12, <1>14, <1>15, <1>16, <1>17, <1>18, <1>19, <1>20,
     <1>22, <1>23, <1>24, <1>25, <1>26
  DEF Next

LEMMA CallInvariance == Spec => []CallInv
<1>1. CallInv /\ UNCHANGED vars => CallInv'
  BY DEF CallInv, vars, wrapVars, callVars
<1>2. CallInv /\ [Next]_vars => CallInv' BY <1>1, CallNext
<1> QED BY <1>2, CallInit, PTL DEF Spec

(* The game hears of a client only between its connect and its disconnect, *)
(* and agrees with the engine on who is there.                             *)
THEOREM NoGhosts == Spec => NoGhost
<1>1. CallInv /\ CallInv' /\ [Next]_vars =>
        [/\ \A k \in DOMAIN heard' :
                LET before == After(SubSeq(heard', 1, k - 1)) IN
                /\ heard'[k] \in {"begin", "command", "userinfo"} => before # "free"
                /\ heard'[k] = "connect" => before = "free"
         /\ game' = client']_vars
  BY CallNext DEF InStep, CallInv
<1> QED BY <1>1, CallInvariance, PTL DEF Spec, NoGhost

-----------------------------------------------------------------------------
(* What the engine keeps.  The first pairs of a userinfo. *)
LEMMA SubSeqFirst ==
    ASSUME NEW S, NEW s \in Seq(S), NEW n \in 0 .. Len(s)
    PROVE  /\ SubSeq(s, 1, n) \in Seq(S) /\ Len(SubSeq(s, 1, n)) = n
           /\ \A k \in 1 .. n : SubSeq(s, 1, n)[k] = s[k]
           /\ n < Len(s) => SubSeq(s, 1, n + 1) = Append(SubSeq(s, 1, n), s[n + 1])
<1> DEFINE t == SubSeq(s, 1, n)
<1>1. Len(s) \in Nat /\ n \in Nat /\ \A k \in 1 .. n : s[k] \in S
  BY LenProperties, ElementOfSeq
<1>2. /\ t \in Seq(S) /\ Len(t) = IF 1 <= n THEN n - 1 + 1 ELSE 0
      /\ \A k \in 1 .. (n - 1 + 1) : t[k] = s[1 + k - 1]
  BY <1>1, SubSeqProperties
<1> HIDE DEF t
<1>3. Len(t) = n /\ \A k \in 1 .. n : t[k] = s[k]
  <2>1. \A k \in 1 .. n : k \in 1 .. (n - 1 + 1) /\ 1 + k - 1 = k BY <1>1
  <2>2. \A k \in 1 .. n : t[k] = s[k] BY <1>2, <2>1
  <2>3. Len(t) = n BY <1>1, <1>2
  <2> QED BY <2>2, <2>3
<1>4. ASSUME n < Len(s) PROVE SubSeq(s, 1, n + 1) = Append(t, s[n + 1])
  <2>1. n + 1 \in 1 .. Len(s) /\ 1 \in 1 .. Len(s) /\ n + 1 - 1 = n BY <1>1, <1>4
  <2>2. SubSeq(s, 1, n + 1) = SubSeq(s, 1, n + 1 - 1) \o <<s[n + 1]>>
    BY <2>1, SubSeqRecursiveSecond
  <2>3. Append(t, s[n + 1]) = t \o <<s[n + 1]>>
    <3>1. s[n + 1] \in S BY <2>1, ElementOfSeq
    <3> QED BY <1>2, <3>1, AppendIsConcat
  <2> QED BY <2>1, <2>2, <2>3 DEF t
<1> QED BY <1>2, <1>3, <1>4 DEF t

LEMMA SizeEmpty == PairsSize(<<>>) = 0
<1> DEFINE none == <<>>
<1>1. none \in Seq(Pairs(Keys)) /\ Len(none) = 0 OBVIOUS
<1> HIDE DEF none
<1>2. PICK F \in [0 .. Len(none) -> Nat] : SizeSteps(none, F) /\ PairsSize(none) = F[Len(none)]
  BY <1>1, SizeUnfold
<1>3. PairsSize(none) = 0 BY <1>1, <1>2 DEF SizeSteps
<1> QED BY <1>3 DEF none

LEMMA FittingLemma ==
    ASSUME NEW pairs \in Seq(Pairs(Keys))
    PROVE  /\ Fitting(pairs) \in 0 .. Len(pairs)
           /\ PairsSize(SubSeq(pairs, 1, Fitting(pairs))) < MaxInfo
           /\ \A m \in 0 .. Len(pairs) :
                PairsSize(SubSeq(pairs, 1, m)) < MaxInfo => m <= Fitting(pairs)
<1> DEFINE N == Len(pairs)
           I == {n \in 0 .. N : PairsSize(SubSeq(pairs, 1, n)) < MaxInfo}
           Left == {k \in Nat : N - k \in I}
<1>1. N \in Nat BY LenProperties
<1>2. 0 \in I
  <2> DEFINE none == <<>>
  <2>1. SubSeq(pairs, 1, 0) = none /\ PairsSize(none) = 0 BY SubSeqEmpty, SizeEmpty
  <2>2. MaxInfo \in Nat \ {0} BY UserinfoAssumption
  <2> HIDE DEF none
  <2>3. 0 < MaxInfo BY <2>2
  <2>4. PairsSize(SubSeq(pairs, 1, 0)) = 0 BY <2>1, Zenon
  <2>5. PairsSize(SubSeq(pairs, 1, 0)) < MaxInfo BY <2>3, <2>4, Zenon
  <2> QED BY <1>1, <2>5
<1>3. I \subseteq 0 .. N OBVIOUS
<1> HIDE DEF I
<1>4. N - 0 = N /\ N \in Left
  <2>1. N - N = 0 BY <1>1
  <2> QED BY <1>1, <1>2, <2>1
<1>5. PICK k \in Left : \A l \in Left : k <= l
  <2>1. Left \in SUBSET Nat OBVIOUS
  <2> HIDE DEF Left
  <2> QED BY <1>4, <2>1, LeastExists
<1>6. N - k \in I /\ \A m \in I : N - k >= m
  <2>1. k \in Nat /\ N - k \in I BY <1>5
  <2>2. ASSUME NEW m \in I PROVE N - k >= m
    <3>1. m \in 0 .. N BY <1>3
    <3>2. N - m \in Nat /\ N - (N - m) = m BY <1>1, <3>1
    <3>3. N - m \in Left BY <3>2
    <3>4. k <= N - m
      <4> HIDE DEF Left
      <4> QED BY <1>5, <3>3
    <3> QED BY <1>1, <2>1, <3>1, <3>4
  <2> QED BY <2>1, <2>2
<1>7. Max(I) \in I /\ \A m \in I : Max(I) >= m BY <1>6 DEF Max
<1>8. Fitting(pairs) = Max(I) BY DEF Fitting, I
<1>9. Fitting(pairs) \in I /\ \A m \in I : Fitting(pairs) >= m BY <1>7, <1>8
<1>10. Fitting(pairs) \in 0 .. N BY <1>3, <1>9
<1>11. PairsSize(SubSeq(pairs, 1, Fitting(pairs))) < MaxInfo BY <1>9 DEF I
<1>12. ASSUME NEW m \in 0 .. N, PairsSize(SubSeq(pairs, 1, m)) < MaxInfo
       PROVE  m <= Fitting(pairs)
  <2>1. m \in I BY <1>12 DEF I
  <2> QED BY <1>1, <1>9, <1>10, <2>1
<1> QED BY <1>10, <1>11, <1>12

(* A value that is cut is a value, of the length that there is room for.   *)
LEMMA CutLength ==
    ASSUME NEW key \in Keys, NEW v \in Values, IsValue(key, v), NEW n \in Nat, n <= v.size
    PROVE  /\ CutValue(key, v, n) \in Values /\ IsValue(key, CutValue(key, v, n))
           /\ CutValue(key, v, n).size = n
           /\ key = "name" => /\ v.text \in Seq(Chars) /\ n <= Len(v.text)
                              /\ CutValue(key, v, n).text = SubSeq(v.text, 1, n)
           /\ key = "model" => CutValue(key, v, n).is = v.is
<1>1. v.text \in Seq(Chars) /\ v.size \in Nat BY DEF Values
<1>2. CASE key = "name"
  <2> DEFINE t == SubSeq(v.text, 1, n)
  <2>1. v.size = Len(v.text) /\ n \in 0 .. Len(v.text)
    <3>1. v = Name(v.text) BY <1>2 DEF IsValue
    <3>2. v.size = Len(v.text) BY <3>1 DEF Name
    <3> QED BY <1>1, <3>2
  <2>2. t \in Seq(Chars) /\ Len(t) = n BY <1>1, <2>1, SubSeqFirst
  <2>3. CutValue(key, v, n) = Name(t) BY <1>2 DEF CutValue
  <2> HIDE DEF t
  <2>4. Name(t) = [is |-> "text", text |-> t, size |-> n] BY <2>2 DEF Name
  <2>5. Name(t) \in Values BY <2>2, <2>4 DEF Values
  <2>6. IsValue(key, Name(t))
    <3>1. Name(t) = Name(Name(t).text) /\ Name(t).is # "cheat" BY <2>4
    <3> QED BY <1>2, <3>1 DEF IsValue
  <2> QED BY <1>1, <1>2, <2>1, <2>3, <2>4, <2>5, <2>6 DEF t
<1>3. CASE key # "name"
  <2> DEFINE is == IF key = "forcepowers" THEN "bad" ELSE v.is
             none == <<>>
  <2>1. CutValue(key, v, n) = [is |-> is, text |-> none, size |-> n]
    BY <1>3 DEF CutValue, Plain
  <2>2. is \in {"good", "bad", "cheat"} /\ (is = "cheat" => key = "model")
    BY <1>3 DEF IsValue
  <2>3. none \in Seq(Chars) OBVIOUS
  <2>4. key = "model" => is = v.is OBVIOUS
  <2> HIDE DEF is
  <2>5. IsValue(key, CutValue(key, v, n)) BY <1>3, <2>1, <2>2 DEF IsValue
  <2> HIDE DEF none
  <2>6. CutValue(key, v, n) \in Values BY <2>1, <2>2, <2>3 DEF Values
  <2> QED BY <1>3, <2>1, <2>4, <2>5, <2>6
<1> QED BY <1>2, <1>3

(* What the engine keeps of a userinfo: all of it if there is room, else   *)
(* the first pairs and perhaps the beginning of the next one.              *)
LEMMA StoredLemma ==
    ASSUME NEW i, IsInfo(i)
    PROVE  LET j == Stored(i)
               n == Fitting(i.pairs)
           IN  /\ IsInfo(j)
               /\ n \in 0 .. Len(i.pairs)
               /\ Size(i) < MaxInfo => j = i
               /\ \/ j.pairs = SubSeq(i.pairs, 1, n)
                  \/ /\ n < Len(i.pairs) /\ Size(j) = MaxInfo - 1
                     /\ \E r \in Nat :
                          /\ r <= i.pairs[n + 1].val.size
                          /\ j.pairs = Append(SubSeq(i.pairs, 1, n), CutPair(i.pairs[n + 1], r))
<1> DEFINE j == Stored(i)
           n == Fitting(i.pairs)
           kept == SubSeq(i.pairs, 1, n)
           room == MaxInfo - 1 - PairsSize(kept)
           S == Pairs(Keys)
           N == Len(i.pairs)
<1>1. /\ i.pairs \in Seq(S) /\ i.tail \in BOOLEAN
      /\ \A k \in DOMAIN i.pairs : IsValue(i.pairs[k].key, i.pairs[k].val)
  BY DEF IsInfo
<1>2. N \in Nat /\ DOMAIN i.pairs = 1 .. N /\ \A k \in 1 .. N : i.pairs[k] \in S
  <2> HIDE DEF S
  <2> QED BY <1>1, LenProperties, ElementOfSeq
<1>3. /\ n \in 0 .. N /\ PairsSize(kept) < MaxInfo
      /\ \A m \in 0 .. N : PairsSize(SubSeq(i.pairs, 1, m)) < MaxInfo => m <= n
  BY <1>1, FittingLemma
<1> HIDE DEF n
<1>4. /\ kept \in Seq(S) /\ Len(kept) = n /\ \A k \in 1 .. n : kept[k] = i.pairs[k]
      /\ n < N => SubSeq(i.pairs, 1, n + 1) = Append(kept, i.pairs[n + 1])
  <2> HIDE DEF S
  <2> QED BY <1>1, <1>3, SubSeqFirst
<1>5. j = IF Size(i) < MaxInfo THEN i
          ELSE IF room < PairSize THEN [pairs |-> kept, tail |-> room > 0]
          ELSE [pairs |-> Append(kept, CutPair(i.pairs[n + 1], room - PairSize)), tail |-> FALSE]
  BY DEF Stored, n
<1>6. /\ PairsSize(kept) \in Nat /\ PairsSize(i.pairs) \in Nat
      /\ PairSize \in Nat \ {0} /\ MaxInfo \in Nat \ {0}
  BY <1>1, <1>4, SizeType, UserinfoAssumption
<1>7. Size(i) = PairsSize(i.pairs) + IF i.tail THEN 1 ELSE 0 BY DEF Size
<1>8. room \in Nat BY <1>3, <1>6
<1> HIDE DEF j, kept
<1>9. CASE Size(i) < MaxInfo
  <2>1. j = i BY <1>5, <1>9
  <2>2. SubSeq(i.pairs, 1, N) = i.pairs
    <3> HIDE DEF S
    <3> QED BY <1>1, SubSeqFull
  <2>3. PairsSize(i.pairs) < MaxInfo BY <1>1, <1>6, <1>7, <1>9
  <2>4. N <= n
    <3>1. N \in 0 .. N BY <1>2
    <3> QED BY <1>3, <2>2, <2>3, <3>1
  <2>5. n = N BY <1>2, <1>3, <2>4
  <2> QED BY <1>3, <2>1, <2>2, <2>5 DEF j, n
<1>10. CASE ~(Size(i) < MaxInfo) /\ room < PairSize
  <2>1. j = [pairs |-> kept, tail |-> room > 0] BY <1>5, <1>10
  <2>2. (room > 0) \in BOOLEAN OBVIOUS
  <2>3. \A k \in DOMAIN kept : IsValue(kept[k].key, kept[k].val)
    <3>1. DOMAIN kept = 1 .. n BY <1>4, LenProperties
    <3> QED BY <1>1, <1>2, <1>3, <1>4, <3>1
  <2> HIDE DEF room
  <2>4. IsInfo(j) BY <1>4, <2>1, <2>2, <2>3 DEF IsInfo
  <2> QED BY <1>3, <1>10, <2>1, <2>4 DEF j, n, kept
<1>11. CASE ~(Size(i) < MaxInfo) /\ ~(room < PairSize)
  <2> DEFINE p == i.pairs[n + 1]
             r == room - PairSize
             c == CutPair(p, r)
             t == Append(kept, c)
  <2>1. j = [pairs |-> t, tail |-> FALSE] BY <1>5, <1>11
  <2>2. r \in Nat BY <1>6, <1>8, <1>11
  <2>3. n < N
    <3> SUFFICES ASSUME n = N PROVE FALSE BY <1>2, <1>3
    <3>1. kept = i.pairs
      <4> HIDE DEF S
      <4> QED BY <1>1, SubSeqFull DEF kept
    <3>2. PairsSize(i.pairs) <= MaxInfo - 1 - PairSize BY <1>6, <1>11, <3>1
    <3> QED BY <1>1, <1>6, <1>7, <1>11, <3>2
  <2>4. p \in S /\ IsValue(p.key, p.val) /\ n + 1 \in 0 .. N
    <3>1. n + 1 \in 1 .. N BY <1>2, <1>3, <2>3
    <3> QED BY <1>1, <1>2, <3>1
  <2>5. p.key \in Keys /\ p.val \in Values /\ p.val.size \in Nat BY <2>4 DEF Pairs, Values
  <2>6. PairsSize(Append(kept, p)) = PairsSize(kept) + PairSize + p.val.size
    BY <1>4, <2>4, SizeAppend
  <2>7. r <= p.val.size
    <3>1. ~(n + 1 <= n) BY <1>3
    <3>2. ~(PairsSize(Append(kept, p)) < MaxInfo) BY <1>3, <1>4, <2>3, <2>4, <3>1
    <3> QED BY <1>6, <2>5, <2>6, <3>2
  <2> HIDE DEF p, r
  <2>8. /\ CutValue(p.key, p.val, r) \in Values /\ IsValue(p.key, CutValue(p.key, p.val, r))
        /\ CutValue(p.key, p.val, r).size = r
    BY <2>2, <2>4, <2>5, <2>7, CutLength
  <2>9. c = [key |-> p.key, val |-> CutValue(p.key, p.val, r)] BY DEF CutPair
  <2>10. c \in S /\ IsValue(c.key, c.val) /\ c.val.size = r BY <2>5, <2>8, <2>9 DEF Pairs
  <2>11. c.val.size = room - PairSize BY <2>10 DEF r
  <2> HIDE DEF c, S
  <2>12. /\ t \in Seq(S) /\ Len(t) = n + 1 /\ t[n + 1] = c
         /\ \A k \in 1 .. n : t[k] = kept[k]
         /\ DOMAIN t = 1 .. (n + 1)
    BY <1>4, <2>10, AppendProperties, LenProperties
  <2>13. PairsSize(t) = PairsSize(kept) + PairSize + c.val.size
    BY <1>4, <2>10, SizeAppend DEF S
  <2> HIDE DEF t
  <2>14. \A k \in DOMAIN t : IsValue(t[k].key, t[k].val)
    <3> SUFFICES ASSUME NEW k \in 1 .. (n + 1) PROVE IsValue(t[k].key, t[k].val) BY <2>12
    <3>1. CASE k = n + 1 BY <2>10, <2>12, <3>1
    <3>2. CASE k # n + 1
      <4>1. k \in 1 .. n /\ k \in 1 .. N BY <1>2, <1>3, <3>2
      <4> QED BY <1>1, <1>2, <1>4, <2>12, <4>1
    <3> QED BY <3>1, <3>2
  <2>15. IsInfo(j) BY <2>1, <2>12, <2>14 DEF IsInfo, S
  <2>16. Size(j) = MaxInfo - 1
    <3>1. Size(j) = PairsSize(t) BY <2>1, <2>13, <1>6, <2>10, <2>2 DEF Size
    <3> QED BY <1>6, <2>11, <2>13, <3>1
  <2>17. j.pairs = Append(SubSeq(i.pairs, 1, n), CutPair(i.pairs[n + 1], r)) /\ r <= i.pairs[n + 1].val.size
    BY <2>1, <2>7 DEF t, c, kept, p
  <2> HIDE DEF room
  <2> QED BY <1>3, <1>11, <2>2, <2>3, <2>15, <2>16, <2>17 DEF j, n
<1> QED BY <1>9, <1>10, <1>11

(* The first pair of a key is where it is. *)
LEMMA FirstLemma ==
    ASSUME NEW i, Len(i.pairs) \in Nat, NEW key
    PROVE  /\ \A n \in 1 .. Len(i.pairs) :
                i.pairs[n].key = key /\ (\A m \in 1 .. (n - 1) : i.pairs[m].key # key)
                => Has(i, key) /\ First(i, key) = n
           /\ Has(i, key) => \A m \in 1 .. (First(i, key) - 1) : i.pairs[m].key # key
<1> DEFINE pairs == i.pairs
           I == {n \in 1 .. Len(pairs) : pairs[n].key = key}
<1>1. First(i, key) = IF I # {} THEN Min(I) ELSE 0
  BY DEF First, SelectInSeq
<1>2. ASSUME I # {}
      PROVE  Min(I) \in I /\ \A y \in I : Min(I) <= y
  <2>1. I \in SUBSET Nat OBVIOUS
  <2> HIDE DEF I
  <2>2. \E x \in I : \A y \in I : x <= y BY <1>2, <2>1, LeastExists
  <2> QED BY <2>2 DEF Min
<1>3. ASSUME Has(i, key) PROVE \A m \in 1 .. (First(i, key) - 1) : pairs[m].key # key
  <2>1. I # {} BY <1>1, <1>3 DEF Has
  <2>2. First(i, key) \in I /\ \A y \in I : First(i, key) <= y BY <1>1, <1>2, <2>1
  <2> QED BY <2>2
<1>4. ASSUME NEW n \in 1 .. Len(pairs), pairs[n].key = key,
             \A m \in 1 .. (n - 1) : pairs[m].key # key
      PROVE  Has(i, key) /\ First(i, key) = n
  <2>1. n \in I BY <1>4
  <2>2. First(i, key) \in I /\ \A y \in I : First(i, key) <= y BY <1>1, <1>2, <2>1
  <2>3. First(i, key) <= n /\ First(i, key) \in 1 .. Len(pairs) /\ pairs[First(i, key)].key = key
    BY <2>1, <2>2
  <2>4. ~(First(i, key) < n) BY <1>4, <2>3
  <2>5. First(i, key) = n BY <2>3, <2>4
  <2> QED BY <1>4, <2>5 DEF Has
<1> QED BY <1>3, <1>4

(* A key that is left has the value it had, unless it may have been cut.   *)
LEMMA StoredValue ==
    ASSUME NEW i, IsInfo(i), NEW key \in Keys, Has(Stored(i), key)
    PROVE  LET j == Stored(i)
               v == Info_Value(i, key)
           IN  /\ Has(i, key)
               /\ \/ Info_Value(j, key) = v
                  \/ /\ MayBeCut(j, key)
                     /\ \E r \in Nat : r <= v.size /\ Info_Value(j, key) = CutValue(key, v, r)
<1> DEFINE j == Stored(i)
           n == Fitting(i.pairs)
           m == First(j, key)
           S == Pairs(Keys)
           kept == SubSeq(i.pairs, 1, n)
<1>1. /\ IsInfo(j) /\ n \in 0 .. Len(i.pairs)
      /\ \/ j.pairs = kept
         \/ /\ n < Len(i.pairs) /\ Size(j) = MaxInfo - 1
            /\ \E r \in Nat :
                 /\ r <= i.pairs[n + 1].val.size
                 /\ j.pairs = Append(kept, CutPair(i.pairs[n + 1], r))
  BY StoredLemma
<1>2. i.pairs \in Seq(S) /\ j.pairs \in Seq(S) BY <1>1 DEF IsInfo
<1> HIDE DEF j, n, S
<1>3. Len(i.pairs) \in Nat /\ Len(j.pairs) \in Nat BY <1>2, LenProperties
<1>4. /\ kept \in Seq(S) /\ Len(kept) = n /\ \A k \in 1 .. n : kept[k] = i.pairs[k]
  BY <1>1, <1>2, SubSeqFirst
<1> HIDE DEF kept
<1>5. CASE j.pairs = kept
  <2>1. m \in 1 .. n /\ j.pairs[m].key = key /\ Info_Value(j, key) = j.pairs[m].val
    BY <1>3, <1>4, <1>5, LookupLemma DEF j
  <2>2. \A l \in 1 .. (m - 1) : j.pairs[l].key # key BY <1>3, FirstLemma DEF j
  <2> HIDE DEF m
  <2>3. m \in 1 .. Len(i.pairs) /\ \A l \in 1 .. (m - 1) : l \in 1 .. n BY <1>1, <1>3, <2>1
  <2>4. i.pairs[m].key = key /\ \A l \in 1 .. (m - 1) : i.pairs[l].key # key
    BY <1>4, <1>5, <2>1, <2>2, <2>3
  <2>5. Has(i, key) /\ First(i, key) = m BY <1>3, <2>3, <2>4, FirstLemma
  <2>6. Info_Value(i, key) = i.pairs[m].val BY <1>3, <2>5, LookupLemma
  <2> QED BY <1>4, <1>5, <2>1, <2>5, <2>6 DEF j
<1>6. CASE j.pairs # kept
  <2>1. PICK r \in Nat : /\ r <= i.pairs[n + 1].val.size
                         /\ j.pairs = Append(kept, CutPair(i.pairs[n + 1], r))
    BY <1>1, <1>6
  <2>2. n < Len(i.pairs) /\ Size(j) = MaxInfo - 1 BY <1>1, <1>6
  <2> DEFINE p == i.pairs[n + 1]
             c == CutPair(p, r)
  <2>3. n + 1 \in 1 .. Len(i.pairs) BY <1>1, <1>3, <2>2
  <2>4. c.key = p.key /\ c.val = CutValue(p.key, p.val, r) BY DEF CutPair
  <2>5. p \in S BY <1>2, <2>3, ElementOfSeq
  <2>6. /\ Len(j.pairs) = n + 1 /\ j.pairs[n + 1] = c
        /\ \A k \in 1 .. n : j.pairs[k] = i.pairs[k]
    <3>1. j.pairs = kept \o <<c>> BY <1>4, <2>1, AppendIsConcat
    <3>2. /\ Len(Append(kept, c)) = Len(kept) + 1 /\ Append(kept, c)[Len(kept) + 1] = c
          /\ \A k \in 1 .. Len(kept) : Append(kept, c)[k] = kept[k]
      <4> HIDE DEF c
      <4>1. kept \in Seq(S \cup {c}) /\ c \in S \cup {c}
        <5>1. \A k \in 1 .. n : kept[k] \in S BY <1>4, ElementOfSeq
        <5>2. kept \in [1 .. n -> S] BY <1>4, LenProperties
        <5>3. kept \in [1 .. n -> S \cup {c}] BY <5>2
        <5> QED BY <5>3, <1>1
      <4> QED BY <4>1, AppendProperties
    <3> QED BY <1>4, <2>1, <3>2
  <2>7. m \in 1 .. (n + 1) /\ j.pairs[m].key = key /\ Info_Value(j, key) = j.pairs[m].val
    BY <1>3, <2>6, LookupLemma DEF j
  <2>8. \A l \in 1 .. (m - 1) : j.pairs[l].key # key BY <1>3, FirstLemma DEF j
  <2> HIDE DEF c, p
  <2>9. m = First(j, key) OBVIOUS
  <2> HIDE DEF m
  <2>10. /\ m \in 1 .. Len(i.pairs) /\ \A l \in 1 .. (m - 1) : l \in 1 .. n
         /\ m \in 1 .. n \/ m = n + 1
    BY <1>1, <1>3, <2>2, <2>7
  <2>11. i.pairs[m].key = key /\ \A l \in 1 .. (m - 1) : i.pairs[l].key # key
    <3>1. \A l \in 1 .. (m - 1) : i.pairs[l].key # key BY <2>6, <2>8, <2>10
    <3>2. CASE m \in 1 .. n BY <2>6, <2>7, <3>1, <3>2
    <3>3. CASE m = n + 1 BY <2>4, <2>6, <2>7, <3>1, <3>3 DEF p
    <3> QED BY <2>10, <3>2, <3>3
  <2>12. Has(i, key) /\ First(i, key) = m BY <1>3, <2>10, <2>11, FirstLemma
  <2>13. Info_Value(i, key) = i.pairs[m].val BY <1>3, <2>12, LookupLemma
  <2>14. CASE m \in 1 .. n BY <2>6, <2>7, <2>12, <2>13, <2>14 DEF j
  <2>15. CASE m = n + 1
    <3>1. MayBeCut(j, key) BY <2>2, <2>6, <2>9, <2>15 DEF MayBeCut
    <3>2. Info_Value(j, key) = CutValue(p.key, p.val, r) /\ p.key = key /\ p.val = Info_Value(i, key)
      BY <2>4, <2>6, <2>7, <2>11, <2>13, <2>15 DEF p
    <3>3. r <= Info_Value(i, key).size BY <2>1, <3>2 DEF p
    <3> QED BY <2>1, <2>12, <3>1, <3>2, <3>3 DEF j
  <2> QED BY <2>10, <2>14, <2>15
<1> QED BY <1>5, <1>6

(* A list that begins with all the elements of a set. *)
LEMMA FilterFirst ==
    ASSUME NEW S, NEW s \in Seq(S), NEW P, NEW n \in 0 .. Len(s),
           \A k \in 1 .. n : s[k] \in P, \A k \in (n + 1) .. Len(s) : s[k] \notin P
    PROVE  Filter(s, P) = SubSeq(s, 1, n)
<1> DEFINE a == SubSeq(s, 1, n)
           b == SubSeq(s, n + 1, Len(s))
<1>1. Len(s) \in Nat /\ n \in Nat /\ n <= Len(s) BY LenProperties
<1>2. a \in Seq(S) /\ Len(a) = n /\ \A k \in 1 .. n : a[k] = s[k] BY SubSeqFirst
<1>3. \A k \in (n + 1) .. Len(s) : s[k] \in S /\ k \in Int BY <1>1, ElementOfSeq
<1>4. /\ b \in Seq(S)
      /\ Len(b) = IF n + 1 <= Len(s) THEN Len(s) - (n + 1) + 1 ELSE 0
      /\ \A k \in 1 .. (Len(s) - (n + 1) + 1) : b[k] = s[n + 1 + k - 1]
  <2>1. n + 1 \in Int /\ Len(s) \in Int BY <1>1
  <2> QED BY <1>3, <2>1, SubSeqProperties
<1>5. s = a \o b
  <2>1. 1 \in 1 .. (Len(s) + 1) /\ n \in (1 - 1) .. Len(s) /\ Len(s) \in n .. Len(s) BY <1>1
  <2>2. a \o b = SubSeq(s, 1, Len(s)) BY <2>1, ConcatAdjacentSubSeq
  <2>3. SubSeq(s, 1, Len(s)) = s BY SubSeqFull
  <2> QED BY <2>2, <2>3
<1> HIDE DEF a, b
<1>6. \A k \in 1 .. Len(b) : b[k] \notin P
  <2> SUFFICES ASSUME NEW k \in 1 .. Len(b) PROVE b[k] \notin P OBVIOUS
  <2>1. n + 1 <= Len(s) BY <1>1, <1>4
  <2>2. Len(b) = Len(s) - (n + 1) + 1 BY <1>4, <2>1
  <2>3. k \in 1 .. (Len(s) - (n + 1) + 1) BY <2>2
  <2>4. n + 1 + k - 1 \in (n + 1) .. Len(s) BY <1>1, <2>3
  <2> QED BY <1>4, <2>3, <2>4
<1>7. Filter(b, P) = <<>>
  <2> DEFINE f == Filter(b, P)
  <2>1. f \in Seq(S) /\ Len(f) \in Nat BY <1>4, FilterType, LenProperties
  <2>2. \A k \in 1 .. Len(f) : f[k] \in P /\ \E m \in 1 .. Len(b) : b[m] = f[k]
    BY <1>4, FilterElements
  <2> HIDE DEF f
  <2>3. f = <<>>
    <3> SUFFICES ASSUME f # <<>> PROVE FALSE OBVIOUS
    <3>1. 1 \in 1 .. Len(f) BY <2>1, EmptySeq
    <3> QED BY <1>6, <2>2, <3>1
  <2> QED BY <2>3 DEF f
<1>8. Filter(a, P) = a
  <2>1. \A k \in 1 .. Len(a) : a[k] \in P BY <1>2
  <2> QED BY <1>2, <2>1, FilterAll
<1>9. Filter(a \o b, P) = Filter(a, P) \o Filter(b, P) BY <1>2, <1>4, FilterConcat
<1>10. a \o <<>> = a BY <1>2, ConcatEmptySeq
<1>11. Filter(s, P) = a
  <2> DEFINE none == <<>>
  <2>1. a \o none = a /\ Filter(b, P) = none BY <1>7, <1>10
  <2> HIDE DEF none
  <2> QED BY <1>5, <1>8, <1>9, <2>1
<1> QED BY <1>11 DEF a

(* What SanitizeUserinfo writes: first the pairs that it leaves alone, in  *)
(* their order, then the replacements.                                     *)
Shape(i, j, K) ==
    \E rest \in Seq(Pairs(Keys)) :
        /\ j.pairs = Filter(i.pairs, Pairs(Keys \ (DirtyKeys(i) \cap K))) \o rest
        /\ \A n \in 1 .. Len(rest) : rest[n].key \in DirtyKeys(i) \cap K

LEMMA ShapeStart == ASSUME NEW i, IsInfo(i) PROVE Shape(i, i, {})
<1> DEFINE S == Pairs(Keys)
           none == <<>>
<1>1. i.pairs \in Seq(S) /\ Keys \ (DirtyKeys(i) \cap {}) = Keys BY DEF IsInfo
<1>2. none \in Seq(S) /\ Len(none) = 0 /\ i.pairs \o none = i.pairs
  BY <1>1, ConcatEmptySeq
<1>3. Filter(i.pairs, S) = i.pairs
  <2>1. \A n \in 1 .. Len(i.pairs) : i.pairs[n] \in S BY <1>1, ElementOfSeq
  <2> HIDE DEF S
  <2> QED BY <1>1, <2>1, FilterAll
<1>4. DirtyKeys(i) \cap {} = {} /\ Pairs(Keys \ {}) = S BY <1>1
<1>5. i.pairs = Filter(i.pairs, Pairs(Keys \ (DirtyKeys(i) \cap {}))) \o none
  BY <1>2, <1>3, <1>4
<1>6. \A n \in 1 .. Len(none) : none[n].key \in DirtyKeys(i) \cap {} BY <1>2
<1> HIDE DEF none
<1> QED BY <1>2, <1>5, <1>6 DEF Shape

LEMMA ShapeStep ==
    ASSUME NEW i, IsInfo(i), NEW j, NEW K, Handled(i, j, K), Shape(i, j, K),
           NEW key \in Checked, key \notin K
    PROVE  Shape(i, Sanitize(j, key), K \cup {key})
<1> DEFINE S == Pairs(Keys)
           D == DirtyKeys(i) \cap K
           E == DirtyKeys(i) \cap (K \cup {key})
           A == Filter(i.pairs, Pairs(Keys \ D))
<1>1. IsInfo(j) /\ key \in Keys /\ Same(i, j, key) BY DEF Handled, Keys
<1>2. IsDirty(j, key) <=> key \in DirtyKeys(i) BY <1>1 DEF IsDirty, Same, DirtyKeys
<1>3. i.pairs \in Seq(S) /\ j.pairs \in Seq(S) BY <1>1 DEF IsInfo
<1>4. PICK rest \in Seq(S) : j.pairs = A \o rest /\ \A n \in 1 .. Len(rest) : rest[n].key \in D
  BY DEF Shape
<1>5. CASE ~IsDirty(j, key)
  <2>1. Sanitize(j, key) = j /\ E = D BY <1>2, <1>5 DEF Sanitize
  <2> QED BY <1>4, <2>1 DEF Shape
<1>6. CASE IsDirty(j, key)
  <2> DEFINE v == Info_Value(j, key)
             r == Replacement(key, v)
             T == Pairs(Keys \ {key})
             e == [key |-> key, val |-> r]
             B == Filter(i.pairs, Pairs(Keys \ E))
             left == Filter(rest, T)
             n == Sanitize(j, key)
  <2>1. n = [pairs |-> Appended(Filter(j.pairs, T), key, r), tail |-> FALSE]
    BY <1>6 DEF Sanitize, Info_Set
  <2>2. r \in Values
    <3>1. Has(j, key) BY <1>6 DEF IsDirty
    <3>2. v \in Values BY <1>1, <3>1, ValueLemma
    <3> QED BY <3>2, ReplacementLemma
  <2> HIDE DEF v, r
  <2>3. e \in S /\ e.key = key BY <1>1, <2>2 DEF Pairs
  <2>4. A \in Seq(S) /\ B \in Seq(S) /\ left \in Seq(S)
    <3> HIDE DEF S, D, E, T
    <3> QED BY <1>3, <1>4, FilterType
  <2>5. Filter(A, T) = B
    <3> DEFINE P == Pairs(Keys \ D)
    <3>1. P \cap T = Pairs(Keys \ E) BY <1>2, <1>6 DEF Pairs
    <3>2. Filter(Filter(i.pairs, P), T) = Filter(i.pairs, P \cap T)
      <4> HIDE DEF S, P, T
      <4> QED BY <1>3, FilterFilter
    <3> HIDE DEF P, T, E
    <3> QED BY <3>1, <3>2 DEF P
  <2>6. Filter(j.pairs, T) = B \o left
    <3>1. Filter(A \o rest, T) = Filter(A, T) \o Filter(rest, T)
      <4> HIDE DEF A, S, T
      <4> QED BY <1>4, <2>4, FilterConcat
    <3> HIDE DEF A, B, T
    <3> QED BY <1>4, <2>5, <3>1
  <2>7. \A k \in 1 .. Len(left) : left[k].key \in E
    <3>1. \A k \in 1 .. Len(left) : \E m \in 1 .. Len(rest) : rest[m] = left[k]
      <4> HIDE DEF S, T
      <4> QED BY <1>4, FilterElements
    <3>2. D \subseteq E OBVIOUS
    <3> HIDE DEF D, E, left
    <3> QED BY <1>4, <3>1, <3>2
  <2>8. key \in E BY <1>2, <1>6
  <2> HIDE DEF S, D, E, A, B, T, left, e, n
  <2>9. CASE n.pairs = B \o left
    <3> QED BY <2>4, <2>7, <2>9 DEF Shape, S, B, E, n
  <2>10. CASE n.pairs = Append(B \o left, e)
    <3> DEFINE t == Append(left, e)
    <3>1. Append(B \o left, e) = B \o t
      <4>1. e \in S /\ B \in Seq(S) /\ left \in Seq(S) BY <2>3, <2>4
      <4> HIDE DEF t
      <4>2. B \o Append(left, e) = Append(B \o left, e) BY ONLY <4>1, ConcatAppend
      <4> QED BY <4>2 DEF t
    <3>2. /\ t \in Seq(S) /\ Len(t) = Len(left) + 1 /\ t[Len(left) + 1] = e
          /\ \A k \in 1 .. Len(left) : t[k] = left[k]
          /\ Len(left) \in Nat
      BY <2>3, <2>4, AppendProperties, LenProperties
    <3> HIDE DEF t
    <3>3. \A k \in 1 .. Len(t) : t[k].key \in E
      <4> SUFFICES ASSUME NEW k \in 1 .. Len(t) PROVE t[k].key \in E OBVIOUS
      <4>1. CASE k = Len(left) + 1 BY <2>3, <2>8, <3>2, <4>1
      <4>2. CASE k # Len(left) + 1
        <5>1. k \in 1 .. Len(left) BY <3>2, <4>2
        <5> QED BY <2>7, <3>2, <5>1
      <4> QED BY <4>1, <4>2
    <3> QED BY <2>10, <3>1, <3>2, <3>3 DEF Shape, S, B, E, n
  <2>11. n.pairs = Appended(B \o left, key, r) BY <2>1, <2>6
  <2>12. n.pairs = B \o left \/ n.pairs = Append(B \o left, e) BY <2>11 DEF Appended, e
  <2> QED BY <2>9, <2>10, <2>12
<1> QED BY <1>5, <1>6

LEMMA BothStep ==
    ASSUME NEW i, IsInfo(i), ~Cheating(i), NEW j, NEW K, Handled(i, j, K), Shape(i, j, K),
           NEW key \in Checked, key \notin K, NEW L, L = K \cup {key}
    PROVE  Handled(i, Sanitize(j, key), L) /\ Shape(i, Sanitize(j, key), L)
  BY HandledStep, ShapeStep

LEMMA ShapeLemma ==
    ASSUME NEW i, IsInfo(i), ~Cheating(i)
    PROVE  Shape(i, SanitizeUserinfo(i), Checked)
<1> DEFINE model == Sanitize(i, "model")
           powers == Sanitize(model, "forcepowers")
           name == Sanitize(powers, "name")
           class == Sanitize(name, "siegeclass")
           saber1 == Sanitize(class, "saber1")
           saber2 == Sanitize(saber1, "saber2")
           Both(j, K) == Handled(i, j, K) /\ Shape(i, j, K)
<1>1. /\ "model" \in Checked /\ "forcepowers" \in Checked /\ "name" \in Checked
      /\ "siegeclass" \in Checked /\ "saber1" \in Checked /\ "saber2" \in Checked
  BY DEF Checked
<1>2. /\ {"model"} = {} \cup {"model"}
      /\ {"model", "forcepowers"} = {"model"} \cup {"forcepowers"}
      /\ {"model", "forcepowers", "name"} = {"model", "forcepowers"} \cup {"name"}
      /\ {"model", "forcepowers", "name", "siegeclass"}
            = {"model", "forcepowers", "name"} \cup {"siegeclass"}
      /\ {"model", "forcepowers", "name", "siegeclass", "saber1"}
            = {"model", "forcepowers", "name", "siegeclass"} \cup {"saber1"}
      /\ Checked = {"model", "forcepowers", "name", "siegeclass", "saber1"} \cup {"saber2"}
  BY DEF Checked
<1>3. Both(i, {}) BY HandledStart, ShapeStart
<1>4. Both(model, {"model"}) BY <1>1, <1>2, <1>3, BothStep
<1> HIDE DEF model
<1>5. Both(powers, {"model", "forcepowers"}) BY <1>1, <1>2, <1>4, BothStep
<1> HIDE DEF powers
<1>6. Both(name, {"model", "forcepowers", "name"}) BY <1>1, <1>2, <1>5, BothStep
<1> HIDE DEF name
<1>7. Both(class, {"model", "forcepowers", "name", "siegeclass"}) BY <1>1, <1>2, <1>6, BothStep
<1> HIDE DEF class
<1>8. Both(saber1, {"model", "forcepowers", "name", "siegeclass", "saber1"})
  BY <1>1, <1>2, <1>7, BothStep
<1> HIDE DEF saber1
<1>9. Both(saber2, Checked) BY <1>1, <1>2, <1>8, BothStep
<1> QED BY <1>9 DEF SanitizeUserinfo, model, powers, name, class, saber1, saber2

(* The engine cuts nothing but replacements: it has kept the rest before.  *)
LEMMA StoredOthers ==
    ASSUME NEW i, IsInfo(i), ~Cheating(i), Size(i) < MaxInfo, NEW D,
           D \subseteq Keys \ DirtyKeys(i)
    PROVE  Filter(Stored(SanitizeUserinfo(i)).pairs, Pairs(D)) = Filter(i.pairs, Pairs(D))
<1> DEFINE S == Pairs(Keys)
           E == Keys \ DirtyKeys(i)
           P == Pairs(E)
           A == Filter(i.pairs, P)
           s == SanitizeUserinfo(i)
           j == Stored(s)
           a == Len(A)
           n == Fitting(s.pairs)
<1>1. Handled(i, s, Checked) /\ Shape(i, s, Checked) BY SanitizeUserinfoLemma, ShapeLemma
<1>2. IsInfo(s) BY <1>1 DEF Handled
<1>3. i.pairs \in Seq(S) /\ s.pairs \in Seq(S) BY <1>2 DEF IsInfo
<1>4. A \in Seq(S) /\ a \in Nat /\ \A k \in 1 .. a : A[k] \in P
  <2> HIDE DEF S, P
  <2> QED BY <1>3, FilterType, FilterElements, LenProperties
<1>5. PICK rest \in Seq(S) :
        s.pairs = A \o rest /\ \A k \in 1 .. Len(rest) : rest[k].key \in DirtyKeys(i)
  <2>1. DirtyKeys(i) \cap Checked = DirtyKeys(i) BY DEF DirtyKeys
  <2> QED BY <1>1, <2>1 DEF Shape
<1> HIDE DEF s
<1>6. /\ Len(s.pairs) = a + Len(rest) /\ Len(rest) \in Nat
      /\ \A k \in 1 .. a : s.pairs[k] = A[k]
      /\ \A k \in (a + 1) .. Len(s.pairs) : s.pairs[k].key \in DirtyKeys(i)
  <2> HIDE DEF A, S
  <2>1. Len(rest) \in Nat BY LenProperties
  <2>2. /\ Len(A \o rest) = a + Len(rest)
        /\ \A k \in 1 .. (a + Len(rest)) :
             (A \o rest)[k] = IF k <= a THEN A[k] ELSE rest[k - a]
    BY <1>4, ConcatProperties
  <2>3. ASSUME NEW k \in 1 .. a PROVE s.pairs[k] = A[k]
    <3>1. k \in 1 .. (a + Len(rest)) /\ k <= a BY <1>4, <2>1
    <3> QED BY <1>5, <2>2, <3>1
  <2>4. ASSUME NEW k \in (a + 1) .. (a + Len(rest)) PROVE s.pairs[k].key \in DirtyKeys(i)
    <3>1. k \in 1 .. (a + Len(rest)) /\ ~(k <= a) /\ k - a \in 1 .. Len(rest) BY <1>4, <2>1
    <3> QED BY <1>5, <2>2, <3>1
  <2> QED BY <1>5, <2>1, <2>2, <2>3, <2>4
<1>7. a <= n
  <2>1. SubSeq(s.pairs, 1, a) = A
    <3>1. a \in 0 .. Len(s.pairs) BY <1>4, <1>6
    <3>2. /\ SubSeq(s.pairs, 1, a) \in Seq(S) /\ Len(SubSeq(s.pairs, 1, a)) = a
          /\ \A k \in 1 .. a : SubSeq(s.pairs, 1, a)[k] = s.pairs[k]
      BY <1>3, <3>1, SubSeqFirst
    <3> DEFINE q == SubSeq(s.pairs, 1, a)
    <3>3. q \in Seq(S) /\ Len(q) = Len(A) /\ \A k \in 1 .. Len(q) : q[k] = A[k]
      BY <1>6, <3>2
    <3> HIDE DEF q, S, A
    <3>4. q = A BY <1>4, <3>3, SeqEqual
    <3> QED BY <3>4 DEF q
  <2>2. PairsSize(A) < MaxInfo
    <3>1. PairsSize(A) <= PairsSize(i.pairs)
      <4> HIDE DEF E
      <4> QED BY <1>3, SizeFilter
    <3>2. PairsSize(A) \in Nat /\ PairsSize(i.pairs) \in Nat /\ MaxInfo \in Nat
      BY <1>3, <1>4, SizeType, InfoNumbers
    <3>3. Size(i) = PairsSize(i.pairs) + IF i.tail THEN 1 ELSE 0 BY DEF Size
    <3> HIDE DEF A
    <3> QED BY <3>1, <3>2, <3>3
  <2>3. a \in 0 .. Len(s.pairs) BY <1>4, <1>6
  <2> HIDE DEF A, S
  <2> QED BY <1>3, <2>1, <2>2, <2>3, FittingLemma DEF S
<1>8. /\ IsInfo(j) /\ n \in 0 .. Len(s.pairs)
      /\ \/ j.pairs = SubSeq(s.pairs, 1, n)
         \/ /\ n < Len(s.pairs)
            /\ \E r \in Nat :
                 j.pairs = Append(SubSeq(s.pairs, 1, n), CutPair(s.pairs[n + 1], r))
  BY <1>2, StoredLemma
<1>9. j.pairs \in Seq(S) BY <1>8 DEF IsInfo
<1> HIDE DEF j, n
<1> DEFINE kept == SubSeq(s.pairs, 1, n)
<1>10. kept \in Seq(S) /\ Len(kept) = n /\ \A k \in 1 .. n : kept[k] = s.pairs[k]
  BY <1>3, <1>8, SubSeqFirst
<1> HIDE DEF kept
<1>11. /\ Len(j.pairs) \in {n, n + 1} /\ Len(j.pairs) <= Len(s.pairs)
       /\ \A k \in 1 .. n : j.pairs[k] = s.pairs[k]
       /\ Len(j.pairs) = n + 1 => j.pairs[n + 1].key = s.pairs[n + 1].key
  <2>1. CASE j.pairs = kept
    <3>1. ~(Len(j.pairs) = n + 1) BY <1>8, <1>10, <2>1
    <3> QED BY <1>8, <1>10, <2>1, <3>1
  <2>2. CASE j.pairs # kept
    <3>1. n < Len(s.pairs) /\ n \in Nat /\ Len(s.pairs) \in Nat BY <1>3, <1>8, <2>2, LenProperties DEF kept
    <3>2. PICK r \in Nat : j.pairs = Append(kept, CutPair(s.pairs[n + 1], r))
      BY <1>8, <2>2 DEF kept
    <3> DEFINE c == CutPair(s.pairs[n + 1], r)
    <3>3. c.key = s.pairs[n + 1].key BY DEF CutPair
    <3> HIDE DEF c
    <3>4. kept \in Seq(S \cup {c}) /\ c \in S \cup {c}
      <4>1. kept \in [1 .. n -> S] BY <1>10, LenProperties
      <4>2. kept \in [1 .. n -> S \cup {c}] BY <4>1
      <4> QED BY <3>1, <4>2
    <3>5. /\ Len(Append(kept, c)) = n + 1 /\ Append(kept, c)[n + 1] = c
          /\ \A k \in 1 .. n : Append(kept, c)[k] = kept[k]
      BY <1>10, <3>4, AppendProperties
    <3>6. j.pairs = Append(kept, c) BY <3>2 DEF c
    <3>7. Len(j.pairs) = n + 1 /\ j.pairs[n + 1] = c /\ \A k \in 1 .. n : j.pairs[k] = s.pairs[k]
      BY <1>10, <3>5, <3>6
    <3>8. Len(j.pairs) <= Len(s.pairs) BY <3>1, <3>7
    <3> QED BY <3>3, <3>7, <3>8
  <2> QED BY <2>1, <2>2
<1>12. n \in Nat /\ Len(s.pairs) \in Nat BY <1>3, <1>8, LenProperties
<1> HIDE DEF A, a, P, E
<1>13. a \in 0 .. Len(j.pairs) BY <1>4, <1>7, <1>11, <1>12
<1>14. ASSUME NEW k \in 1 .. a PROVE j.pairs[k] \in P /\ j.pairs[k] = A[k]
  <2>1. k \in 1 .. n BY <1>4, <1>7, <1>12
  <2> QED BY <1>4, <1>6, <1>11, <2>1
<1>15. ASSUME NEW k \in (a + 1) .. Len(j.pairs) PROVE j.pairs[k] \notin P
  <2> DEFINE M == Len(j.pairs)
  <2>0. a \in Nat /\ M \in {n, n + 1} /\ M <= Len(s.pairs) /\ k \in (a + 1) .. M
    BY <1>4, <1>11
  <2> HIDE DEF M
  <2>1. k \in (a + 1) .. Len(s.pairs) /\ (k \in 1 .. n \/ (k = n + 1 /\ M = n + 1))
    <3>1. k \in Int /\ k >= a + 1 /\ k <= M /\ (M = n \/ M = n + 1) BY <2>0
    <3>2. a \in Nat /\ M <= Len(s.pairs) BY <2>0
    <3> DEFINE L == Len(s.pairs)
    <3>3. n \in Nat /\ L \in Nat /\ M <= L BY <1>12, <3>2
    <3> HIDE DEF L
    <3>4. M \in Nat BY <3>1, <3>3
    <3>5. k \in (a + 1) .. L BY <3>1, <3>2, <3>3, <3>4
    <3>6. k \in 1 .. n \/ (k = n + 1 /\ M = n + 1) BY <3>1, <3>2, <3>3
    <3> QED BY <3>5, <3>6 DEF L
  <2>2. j.pairs[k].key = s.pairs[k].key BY <1>11, <2>1 DEF M
  <2>3. s.pairs[k].key \in DirtyKeys(i) BY <1>6, <2>1
  <2> QED BY <2>2, <2>3 DEF P, E, Pairs
<1>16. Filter(j.pairs, P) = SubSeq(j.pairs, 1, a)
  <2> HIDE DEF S
  <2> QED BY <1>9, <1>13, <1>14, <1>15, FilterFirst
<1>17. SubSeq(j.pairs, 1, a) = A
  <2> DEFINE q == SubSeq(j.pairs, 1, a)
  <2>1. q \in Seq(S) /\ Len(q) = a /\ \A k \in 1 .. a : q[k] = j.pairs[k]
    BY <1>9, <1>13, SubSeqFirst
  <2>2. Len(q) = Len(A) /\ \A k \in 1 .. Len(q) : q[k] = A[k] BY <1>14, <2>1 DEF a
  <2> HIDE DEF q, S
  <2>3. q = A BY <1>4, <2>1, <2>2, SeqEqual
  <2> QED BY <2>3 DEF q
<1>18. Filter(j.pairs, P) = Filter(i.pairs, P) BY <1>16, <1>17 DEF A
<1>19. Filter(j.pairs, Pairs(D)) = Filter(i.pairs, Pairs(D))
  <2> DEFINE Q == Pairs(D)
  <2>1. P \cap Q = Q BY DEF P, E, Pairs
  <2>2. /\ Filter(Filter(j.pairs, P), Q) = Filter(j.pairs, P \cap Q)
        /\ Filter(Filter(i.pairs, P), Q) = Filter(i.pairs, P \cap Q)
    <3> HIDE DEF S, Q
    <3> QED BY <1>3, <1>9, FilterFilter
  <2> HIDE DEF Q
  <2>3. Filter(j.pairs, Q) = Filter(i.pairs, Q) BY <1>18, <2>1, <2>2
  <2> QED BY <2>3 DEF Q
<1> QED BY <1>19 DEF j, s

LEMMA StoredLen ==
    ASSUME NEW i, IsInfo(i) PROVE Len(Stored(i).pairs) <= Len(i.pairs)
<1> DEFINE S == Pairs(Keys)
           j == Stored(i)
           n == Fitting(i.pairs)
           kept == SubSeq(i.pairs, 1, n)
<1>1. /\ IsInfo(j) /\ n \in 0 .. Len(i.pairs)
      /\ \/ j.pairs = kept
         \/ /\ n < Len(i.pairs)
            /\ \E r \in Nat : j.pairs = Append(kept, CutPair(i.pairs[n + 1], r))
  BY StoredLemma
<1>2. i.pairs \in Seq(S) BY DEF IsInfo
<1>3. Len(i.pairs) \in Nat BY <1>2, LenProperties
<1> HIDE DEF j, n, S
<1>4. kept \in Seq(S) /\ Len(kept) = n BY <1>1, <1>2, SubSeqFirst
<1> HIDE DEF kept
<1>5. CASE j.pairs = kept BY <1>1, <1>3, <1>4, <1>5 DEF j
<1>6. CASE j.pairs # kept
  <2>1. PICK r \in Nat : j.pairs = Append(kept, CutPair(i.pairs[n + 1], r)) BY <1>1, <1>6
  <2> DEFINE c == CutPair(i.pairs[n + 1], r)
  <2> HIDE DEF c
  <2>2. kept \in Seq(S \cup {c}) /\ c \in S \cup {c}
    <3>1. kept \in [1 .. n -> S] BY <1>4, LenProperties
    <3>2. kept \in [1 .. n -> S \cup {c}] BY <3>1
    <3> QED BY <1>1, <3>2
  <2>3. Len(Append(kept, c)) = n + 1 BY <1>4, <2>2, AppendProperties
  <2>4. Len(j.pairs) = n + 1 /\ n < Len(i.pairs) BY <1>1, <1>6, <2>1, <2>3 DEF c
  <2> QED BY <1>1, <1>3, <2>4 DEF j
<1> QED BY <1>5, <1>6

-----------------------------------------------------------------------------
(* The slot's userinfo.  One that the game has been told is acceptable;    *)
(* one that has been handled is clean, if it is not refused again.  Both   *)
(* but for what may have been cut.                                         *)
Fine(i) ==
    \A key \in Checked :
        Has(i, key) => Acceptable(key, Info_Value(i, key)) \/ MayBeCut(i, key)
Refuses == UserinfoLooksEvil \/ Cheats
Full(i) == Size(i) = MaxInfo - 1

InfoInv ==
    /\ InfoTypeOK
    /\ slot = "changed" => rounds < MaxRounds
    /\ slot = "told" => Fine(info)
    /\ rounds >= 1 =>
          Refuses \/ Full(info) \/ \A key \in Checked \ {"name"} : ~IsDirty(info, key)

LEMMA InfoStart == Init => InfoInv
<1> SUFFICES ASSUME Init PROVE InfoInv OBVIOUS
<1>1. scene \in Scenes /\ info \in Given[scene].infos /\ slot = "changed" /\ rounds = 0
  BY DEF Init, InfoInit
<1>2. info \in UserInfos BY <1>1, BoundaryAssumption
<1>3. IsInfo(info) /\ Len(info.pairs) <= MaxPairs BY <1>2, UserinfoAssumption
<1>4. MaxRounds \in Nat \ {0} BY InfoNumbers
<1> QED BY <1>1, <1>3, <1>4 DEF InfoInv, InfoTypeOK

(* A string without dirty keys is left alone. *)
LEMMA CleanStays ==
    ASSUME NEW i, DirtyKeys(i) = {} PROVE SanitizeUserinfo(i) = i
<1>1. \A key \in Checked : Sanitize(i, key) = i BY DEF DirtyKeys, Sanitize
<1> QED BY <1>1 DEF SanitizeUserinfo, Checked

LEMMA ForwardLemma ==
    ASSUME InfoInv, Forward
    PROVE  /\ IsInfo(info) /\ IsInfo(info') /\ ~Refuses /\ ~Cheating(info)
           /\ Size(info) < MaxInfo
           /\ IsInfo(SanitizeUserinfo(info))
           /\ Handled(info, SanitizeUserinfo(info), Checked)
           /\ info' = Stored(SanitizeUserinfo(info))
           /\ DirtyKeys(info) = {} => info' = info
<1>1. ~UserinfoLooksEvil /\ ~Cheats /\ IsInfo(info) BY DEF Forward, InfoInv, InfoTypeOK
<1>2. ~Cheating(info) BY <1>1 DEF Cheats, Cheating
<1>3. Handled(info, SanitizeUserinfo(info), Checked) BY <1>1, <1>2, SanitizeUserinfoLemma
<1>4. Size(info) < MaxInfo
  <2>1. PairsSize(info.pairs) \in Nat BY <1>1, SizeType DEF IsInfo
  <2>2. ~(Size(info) >= MaxInfo) /\ MaxInfo \in Nat BY <1>1, InfoNumbers DEF UserinfoLooksEvil
  <2>3. Size(info) = PairsSize(info.pairs) + IF info.tail THEN 1 ELSE 0 BY DEF Size
  <2>4. Size(info) \in Nat BY <2>1, <2>3
  <2> QED BY <2>2, <2>4
<1>5. ASSUME DirtyKeys(info) = {}
      PROVE  info' = info /\ info' = Stored(SanitizeUserinfo(info))
  <2>1. ~\E key \in Checked : IsDirty(info, key) BY <1>5 DEF DirtyKeys
  <2>2. info' = info BY <2>1 DEF Forward
  <2>3. SanitizeUserinfo(info) = info BY <1>5, CleanStays
  <2>4. Stored(info) = info BY <1>1, <1>4, StoredLemma
  <2> QED BY <2>2, <2>3, <2>4
<1>6. ASSUME DirtyKeys(info) # {} PROVE info' = Stored(SanitizeUserinfo(info))
  BY <1>6 DEF DirtyKeys, Forward
<1>7. IsInfo(SanitizeUserinfo(info)) BY <1>3 DEF Handled
<1>8. info' = Stored(SanitizeUserinfo(info)) BY <1>5, <1>6
<1>9. IsInfo(info') BY <1>7, <1>8, StoredLemma
<1> QED BY <1>1, <1>2, <1>3, <1>4, <1>5, <1>7, <1>8, <1>9 DEF Refuses

(* What the game reads after that. *)
LEMMA ToldValue ==
    ASSUME InfoInv, Forward, NEW key \in Checked, Has(info', key)
    PROVE  LET v == Info_Value(SanitizeUserinfo(info), key)
           IN  /\ Has(SanitizeUserinfo(info), key) /\ Acceptable(key, v)
               /\ \/ Info_Value(info', key) = v
                  \/ /\ MayBeCut(info', key)
                     /\ \E r \in Nat : r <= v.size /\ Info_Value(info', key) = CutValue(key, v, r)
<1> DEFINE s == SanitizeUserinfo(info)
<1>1. IsInfo(s) /\ Handled(info, s, Checked) /\ info' = Stored(s) BY ForwardLemma
<1> HIDE DEF s
<1>2. key \in Keys BY DEF Keys
<1>3. /\ Has(s, key)
      /\ \/ Info_Value(info', key) = Info_Value(s, key)
         \/ /\ MayBeCut(info', key)
            /\ \E r \in Nat : /\ r <= Info_Value(s, key).size
                              /\ Info_Value(info', key) = CutValue(key, Info_Value(s, key), r)
  BY <1>1, <1>2, StoredValue
<1>4. Acceptable(key, Info_Value(s, key)) BY <1>1, <1>3 DEF Handled
<1> QED BY <1>3, <1>4 DEF s

LEMMA ForwardInv == ASSUME InfoInv, Forward PROVE InfoInv'
<1>1. IsInfo(info') /\ IsInfo(info) BY ForwardLemma
<1>2. slot = "changed" /\ slot' = "told" /\ rounds' = rounds + 1 BY DEF Forward
<1>3. rounds \in 0 .. MaxRounds /\ rounds < MaxRounds /\ MaxRounds \in Nat
  BY <1>2, InfoNumbers DEF InfoInv, InfoTypeOK
<1>4. Len(info'.pairs) <= MaxPairs
  <2> DEFINE s == SanitizeUserinfo(info)
  <2>1. IsInfo(s) /\ Handled(info, s, Checked) /\ info' = Stored(s) BY ForwardLemma
  <2> HIDE DEF s
  <2>2. Len(s.pairs) <= Len(info.pairs) /\ Len(info'.pairs) <= Len(s.pairs)
    BY <2>1, StoredLen DEF Handled
  <2>3. /\ info.pairs \in Seq(Pairs(Keys)) /\ info'.pairs \in Seq(Pairs(Keys))
        /\ s.pairs \in Seq(Pairs(Keys)) /\ Len(info.pairs) <= MaxPairs
    BY <1>1, <2>1 DEF InfoInv, InfoTypeOK, IsInfo
  <2>4. /\ Len(info'.pairs) \in Nat /\ Len(info.pairs) \in Nat /\ Len(s.pairs) \in Nat
        /\ MaxPairs \in Nat
    BY <2>3, LenProperties, InfoNumbers
  <2> QED BY <2>2, <2>3, <2>4
<1>5. Fine(info')
  <2> SUFFICES ASSUME NEW key \in Checked, Has(info', key)
               PROVE  Acceptable(key, Info_Value(info', key)) \/ MayBeCut(info', key)
    BY DEF Fine
  <2> QED BY ToldValue
<1>6. Full(info') \/ \A key \in Checked \ {"name"} : ~IsDirty(info', key)
  <2> SUFFICES ASSUME ~Full(info'), NEW key \in Checked \ {"name"}, Has(info', key)
               PROVE  ~Dirty(key, Info_Value(info', key))
    BY DEF IsDirty
  <2>1. ~MayBeCut(info', key) BY DEF MayBeCut, Full
  <2>2. Acceptable(key, Info_Value(info', key)) BY <1>5, <2>1 DEF Fine
  <2> QED BY <2>2 DEF Acceptable, Dirty
<1>7. InfoTypeOK' BY <1>1, <1>2, <1>3, <1>4 DEF InfoTypeOK
<1>8. (slot = "told" => Fine(info))' BY <1>5
<1>9. (rounds >= 1 =>
         Refuses \/ Full(info) \/ \A key \in Checked \ {"name"} : ~IsDirty(info, key))'
  BY <1>6
<1> QED BY <1>2, <1>7, <1>8, <1>9 DEF InfoInv

LEMMA InfoNext == InfoInv /\ [Next]_vars => InfoInv'
<1> SUFFICES ASSUME InfoInv, [Next]_vars PROVE InfoInv' OBVIOUS
<1>1. ASSUME info' = info, rounds' = rounds, slot' = slot PROVE InfoInv'
  BY <1>1 DEF InfoInv, InfoTypeOK, Refuses, UserinfoLooksEvil, Cheats, Fine, Full
<1>2. ASSUME info' = info, rounds' = rounds, slot' = "changed", rounds < MaxRounds PROVE InfoInv'
  BY <1>2 DEF InfoInv, InfoTypeOK, Refuses, UserinfoLooksEvil, Cheats, Fine, Full
<1>3. ASSUME UNCHANGED infoVars PROVE InfoInv' BY <1>1, <1>3 DEF infoVars
<1>4. CASE UserinfoRefused
  <2>1. /\ slot = "changed" /\ slot' = "dropped" /\ rounds' = rounds + 1 /\ info' = info
        /\ Refuses
    BY <1>4 DEF UserinfoRefused, DropClient, Refuses
  <2>2. Refuses' BY <2>1 DEF Refuses, UserinfoLooksEvil, Cheats
  <2>3. rounds \in 0 .. MaxRounds /\ rounds < MaxRounds /\ MaxRounds \in Nat
    BY <2>1, InfoNumbers DEF InfoInv, InfoTypeOK
  <2>4. InfoTypeOK' BY <2>1, <2>3 DEF InfoInv, InfoTypeOK
  <2> QED BY <2>1, <2>2, <2>4 DEF InfoInv
<1>5. CASE UserinfoChanged BY <1>5, ForwardInv DEF UserinfoChanged
<1>6. CASE SendsAgain BY <1>2, <1>6 DEF SendsAgain, Resend
<1>7. CASE Connect BY <1>2, <1>7 DEF Connect
<1>8. CASE DllEntry \/ LibAppears BY <1>3, <1>8 DEF DllEntry, LibAppears
<1>9. CASE Frame \/ Disconnect \/ GameDrops BY <1>3, <1>9 DEF Frame, Disconnect, GameDrops
<1>10. ASSUME NEW n, Begin(n) PROVE InfoInv' BY <1>3, <1>10 DEF Begin
<1>11. ASSUME NEW line, ClientCommand(line) \/ CheaterDropped(line) PROVE InfoInv'
  BY <1>3, <1>11 DEF ClientCommand, CheaterDropped
<1>12. ASSUME NEW call, NEW in, NEW out, Filters(call, in, out) PROVE InfoInv'
  BY <1>3, <1>12 DEF Filters
<1>13. ASSUME NEW cmd, GetUsercmd(cmd) PROVE InfoInv' BY <1>12, <1>13 DEF GetUsercmd
<1>14. ASSUME NEW t, GetEntityToken(t) PROVE InfoInv' BY <1>12, <1>14 DEF GetEntityToken
<1>15. ASSUME NEW n, SendServerCommand(n) \/ SiegeFind(n) PROVE InfoInv'
  BY <1>12, <1>15 DEF SendServerCommand, SiegeFind
<1>16. ASSUME NEW cs, SetConfigstring(cs) PROVE InfoInv' BY <1>12, <1>16 DEF SetConfigstring
<1>17. CASE EngineOwn BY <1>3, <1>17 DEF EngineOwn
<1>18. CASE UNCHANGED vars BY <1>3, <1>18 DEF vars
<1> QED
  BY <1>4, <1>5, <1>6, <1>7, <1>8, <1>9, <1>10, <1>11, <1>13, <1>14, <1>15, <1>16, <1>17, <1>18
  DEF Next

LEMMA InfoInvariance == Spec => []InfoInv
  BY InfoStart, InfoNext, PTL DEF Spec

(* Only Forward tells the game. *)
LEMMA ForwardOnly ==
    ASSUME [Next]_vars, slot = "changed", slot' = "told" PROVE Forward
<1>1. ~UNCHANGED infoVars /\ ~UNCHANGED vars BY DEF infoVars, vars
<1>2. \A call, in, out : ~Filters(call, in, out) BY <1>1 DEF Filters
<1>3. ~DllEntry /\ ~LibAppears /\ ~Frame /\ ~Disconnect /\ ~GameDrops /\ ~EngineOwn
  BY <1>1 DEF DllEntry, LibAppears, Frame, Disconnect, GameDrops, EngineOwn
<1>4. ~Connect /\ ~SendsAgain /\ ~UserinfoRefused
  BY DEF Connect, SendsAgain, Resend, UserinfoRefused, DropClient
<1>5. \A n : ~Begin(n) BY <1>1 DEF Begin
<1>6. \A line : ~ClientCommand(line) /\ ~CheaterDropped(line)
  BY <1>1 DEF ClientCommand, CheaterDropped
<1>7. \A x : ~GetUsercmd(x) /\ ~GetEntityToken(x) /\ ~SendServerCommand(x) /\ ~SiegeFind(x)
             /\ ~SetConfigstring(x)
  BY <1>2 DEF GetUsercmd, GetEntityToken, SendServerCommand, SiegeFind, SetConfigstring
<1>8. UserinfoChanged BY <1>1, <1>3, <1>4, <1>5, <1>6, <1>7 DEF Next
<1> QED BY <1>8 DEF UserinfoChanged

(* The game finds no value in a userinfo that the wrapper would refuse,    *)
(* whatever pairs a client sends, as often as it likes.                    *)
(* What the wrapper passes on at GAME_CLIENT_USERINFO_CHANGED holds no     *)
(* value that it would refuse, whatever pairs a client sends, as often as  *)
(* it likes, but for the last pair of a userinfo that fills what the       *)
(* engine keeps of one.                                                    *)
THEOREM GameGetsAcceptable == Spec => []GameAccepts
<1>1. InfoInv => GameAccepts BY DEF InfoInv, GameAccepts, Fine
<1> QED BY <1>1, InfoInvariance, PTL

(* A client keeps its model, powers and name if what is written back fits: *)
(* vmMain's buffer has room for every replacement.                         *)
LEMMA NoKeyLost ==
    ASSUME InfoInv, [Next]_vars, slot = "changed", slot' = "told",
           Size(SanitizeUserinfo(info)) < MaxInfo,
           NEW key \in {"model", "forcepowers", "name"}, Has(info, key)
    PROVE  Has(info', key)
<1>1. Forward BY ForwardOnly
<1>2. /\ IsInfo(info) /\ Size(info) < MaxInfo /\ IsInfo(SanitizeUserinfo(info))
      /\ info' = Stored(SanitizeUserinfo(info))
  BY <1>1, ForwardLemma
<1>3. info' = SanitizeUserinfo(info) BY <1>2, StoredLemma
<1>4. PairsSize(info.pairs) < MaxInfo
  <2>1. PairsSize(info.pairs) \in Nat BY <1>2, SizeType DEF IsInfo
  <2>2. MaxInfo \in Nat BY InfoNumbers
  <2>3. Size(info) = PairsSize(info.pairs) + IF info.tail THEN 1 ELSE 0 BY DEF Size
  <2> QED BY <1>2, <2>1, <2>2, <2>3
<1> QED BY <1>2, <1>3, <1>4, RefillLemma DEF Refilled

(* Pairs of keys that are not dirty are still there, in the same order, a  *)
(* clean userinfo is not touched, and model, powers and name are kept if   *)
(* the engine keeps all that is written back.                              *)
THEOREM LegitKept == Spec => LegitUntouched
<1>1. InfoInv /\ [Next]_vars =>
        [slot = "changed" /\ slot' = "told" =>
           LET dirty == {key \in Checked : IsDirty(info, key)}
               Others(i) == Filter(i.pairs, Pairs(Keys \ dirty))
           IN  /\ Others(info') = Others(info)
               /\ dirty = {} => info' = info
               /\ Size(SanitizeUserinfo(info)) < MaxInfo =>
                     \A key \in {"model", "forcepowers", "name"} :
                        Has(info, key) => Has(info', key)]_infoVars
  <2> SUFFICES ASSUME InfoInv, [Next]_vars, slot = "changed", slot' = "told"
               PROVE  /\ Filter(info'.pairs, Pairs(Keys \ DirtyKeys(info)))
                           = Filter(info.pairs, Pairs(Keys \ DirtyKeys(info)))
                      /\ DirtyKeys(info) = {} => info' = info
                      /\ Size(SanitizeUserinfo(info)) < MaxInfo =>
                            \A key \in {"model", "forcepowers", "name"} :
                               Has(info, key) => Has(info', key)
    BY DEF DirtyKeys
  <2>1. Forward BY ForwardOnly
  <2>2. /\ IsInfo(info) /\ ~Cheating(info) /\ Size(info) < MaxInfo
        /\ info' = Stored(SanitizeUserinfo(info))
        /\ DirtyKeys(info) = {} => info' = info
    BY <2>1, ForwardLemma
  <2> DEFINE D == Keys \ DirtyKeys(info)
  <2>3. D \subseteq Keys \ DirtyKeys(info) OBVIOUS
  <2>4. Filter(info'.pairs, Pairs(D)) = Filter(info.pairs, Pairs(D))
    <3> HIDE DEF D
    <3> QED BY <2>2, <2>3, StoredOthers
  <2>5. ASSUME Size(SanitizeUserinfo(info)) < MaxInfo
        PROVE  \A key \in {"model", "forcepowers", "name"} : Has(info, key) => Has(info', key)
    BY <2>5, NoKeyLost
  <2> QED BY <2>2, <2>4, <2>5
<1> QED BY <1>1, InfoInvariance, PTL DEF Spec, LegitUntouched

-----------------------------------------------------------------------------
(* What becomes of the name: after one round there is no control character *)
(* in it, after two it is clean, unless it may have been cut.              *)
NameOf(i) == Info_Value(i, "name").text
Printable(text) == text \in Seq(Chars) /\ \A k \in DOMAIN text : text[k] # "ctl"

NameInv ==
    Refuses \/ ~Has(info, "name") \/
      /\ rounds >= 1 => Printable(NameOf(info))
      /\ rounds >= 2 => Full(info) \/ CleanText(NameOf(info))

LEMMA NameNext == InfoInv /\ NameInv /\ [Next]_vars => NameInv'
<1> SUFFICES ASSUME InfoInv, NameInv, [Next]_vars PROVE NameInv' OBVIOUS
<1>1. ASSUME info' = info, rounds' = rounds PROVE NameInv'
  BY <1>1 DEF NameInv, Refuses, UserinfoLooksEvil, Cheats, Full
<1>2. CASE UserinfoRefused
  <2>1. info' = info /\ Refuses BY <1>2 DEF UserinfoRefused, DropClient, Refuses
  <2> QED BY <2>1 DEF NameInv, Refuses, UserinfoLooksEvil, Cheats
<1>3. CASE UserinfoChanged
  <2> DEFINE s == SanitizeUserinfo(info)
  <2>1. Forward BY <1>3 DEF UserinfoChanged
  <2>2. IsInfo(info) /\ ~Refuses /\ IsInfo(s) /\ Handled(info, s, Checked)
    BY <2>1, ForwardLemma
  <2>3. rounds' = rounds + 1 /\ rounds \in Nat
    BY <2>1, InfoNumbers DEF Forward, InfoInv, InfoTypeOK
  <2>4. "name" \in Checked /\ "name" \in Keys BY DEF Keys, Checked
  <2> SUFFICES ASSUME Has(info', "name")
               PROVE  /\ Printable(NameOf(info'))
                      /\ rounds' >= 2 => Full(info') \/ CleanText(NameOf(info'))
    BY DEF NameInv
  <2>5. /\ Has(s, "name")
        /\ \/ Info_Value(info', "name") = Info_Value(s, "name")
           \/ /\ MayBeCut(info', "name")
              /\ \E r \in Nat :
                   /\ r <= Info_Value(s, "name").size
                   /\ Info_Value(info', "name") = CutValue("name", Info_Value(s, "name"), r)
    BY <2>1, <2>4, ToldValue
  <2> HIDE DEF s
  <2>6. Has(info, "name") /\ NameOf(s) = CleanName(NameOf(info))
    BY <2>2, <2>4, <2>5 DEF Handled, NameOf
  <2>7. NameOf(info) \in Seq(Chars)
    <3>1. Info_Value(info, "name") \in Values BY <2>2, <2>4, <2>6, ValueLemma
    <3> QED BY <3>1 DEF Values, NameOf
  <2>8. Printable(NameOf(s)) BY <2>6, <2>7, CleanNameLemma DEF Printable
  <2>9. CASE Info_Value(info', "name") = Info_Value(s, "name")
    <3>1. NameOf(info') = NameOf(s) BY <2>9 DEF NameOf
    <3>2. ASSUME rounds' >= 2 PROVE CleanText(NameOf(info'))
      <4>1. Printable(NameOf(info)) BY <2>2, <2>3, <2>6, <3>2 DEF NameInv
      <4> QED BY <2>6, <2>7, <3>1, <4>1, CleanOnce DEF Printable
    <3> QED BY <2>8, <3>1, <3>2
  <2>10. CASE Info_Value(info', "name") # Info_Value(s, "name")
    <3>1. Full(info') BY <2>5, <2>10 DEF MayBeCut, Full
    <3>2. PICK r \in Nat :
            /\ r <= Info_Value(s, "name").size
            /\ Info_Value(info', "name") = CutValue("name", Info_Value(s, "name"), r)
      BY <2>5, <2>10
    <3> DEFINE v == Info_Value(s, "name")
    <3>3. v \in Values /\ IsValue("name", v) BY <2>2, <2>4, <2>5, ValueLemma
    <3>4. r <= v.size BY <3>2
    <3> HIDE DEF v
    <3>5. v.text \in Seq(Chars) /\ r <= Len(v.text)
          /\ CutValue("name", v, r).text = SubSeq(v.text, 1, r)
      BY <2>4, <3>3, <3>4, CutLength
    <3>6. NameOf(info') = SubSeq(v.text, 1, r) /\ v.text = NameOf(s)
      BY <3>2, <3>5 DEF NameOf, v
    <3> DEFINE t == SubSeq(v.text, 1, r)
    <3>7. /\ r \in 0 .. Len(v.text) /\ DOMAIN v.text = 1 .. Len(v.text)
          /\ Len(v.text) \in Nat
      BY <3>5, LenProperties
    <3>8. t \in Seq(Chars) /\ Len(t) = r /\ \A k \in 1 .. r : t[k] = v.text[k]
      BY <3>5, <3>7, SubSeqFirst
    <3> HIDE DEF t
    <3>9. DOMAIN t = 1 .. r /\ \A k \in 1 .. r : k \in 1 .. Len(v.text)
      BY <3>7, <3>8, LenProperties
    <3>10. Printable(t) BY <2>8, <3>6, <3>7, <3>8, <3>9 DEF Printable
    <3> QED BY <3>1, <3>6, <3>10 DEF t
  <2> QED BY <2>9, <2>10
<1>4. ASSUME UNCHANGED infoVars PROVE NameInv' BY <1>1, <1>4 DEF infoVars
<1>5. CASE SendsAgain BY <1>1, <1>5 DEF SendsAgain, Resend
<1>6. CASE Connect BY <1>1, <1>6 DEF Connect
<1>7. CASE DllEntry \/ LibAppears BY <1>4, <1>7 DEF DllEntry, LibAppears
<1>8. CASE Frame \/ Disconnect \/ GameDrops BY <1>4, <1>8 DEF Frame, Disconnect, GameDrops
<1>9. ASSUME NEW n, Begin(n) PROVE NameInv' BY <1>4, <1>9 DEF Begin
<1>10. ASSUME NEW line, ClientCommand(line) \/ CheaterDropped(line) PROVE NameInv'
  BY <1>4, <1>10 DEF ClientCommand, CheaterDropped
<1>11. ASSUME NEW call, NEW in, NEW out, Filters(call, in, out) PROVE NameInv'
  BY <1>4, <1>11 DEF Filters
<1>12. ASSUME NEW x, GetUsercmd(x) \/ GetEntityToken(x) \/ SendServerCommand(x)
                     \/ SiegeFind(x) \/ SetConfigstring(x)
       PROVE  NameInv'
  BY <1>11, <1>12
  DEF GetUsercmd, GetEntityToken, SendServerCommand, SiegeFind, SetConfigstring
<1>13. CASE EngineOwn BY <1>4, <1>13 DEF EngineOwn
<1>14. CASE UNCHANGED vars BY <1>4, <1>14 DEF vars
<1> QED
  BY <1>2, <1>3, <1>5, <1>6, <1>7, <1>8, <1>9, <1>10, <1>12, <1>13, <1>14 DEF Next

LEMMA NameInvariance == Spec => [](InfoInv /\ NameInv)
<1>1. Init => InfoInv /\ NameInv
  <2>1. Init => rounds = 0 BY DEF Init, InfoInit
  <2> QED BY <2>1, InfoStart DEF NameInv
<1>2. InfoInv /\ NameInv /\ [Next]_vars => (InfoInv /\ NameInv)' BY InfoNext, NameNext
<1> QED BY <1>1, <1>2, PTL DEF Spec

(* Settles, but for a userinfo that fills what the engine keeps of one,    *)
(* whose last pair may have been cut.                                      *)
SettlesUncut ==
    [][slot = "changed" /\ slot' = "told" =>
         LET Unnamed(i) == Filter(i.pairs, Pairs(Keys \ {"name"}))
         IN  Full(info) \/
               /\ rounds >= 1 => Unnamed(info') = Unnamed(info)
               /\ rounds >= 2 => info' = info]_infoVars

(* The wrapper does not argue with its own output: from the second round   *)
(* on nothing but the name is changed, from the third on nothing at all,   *)
(* if nothing has been cut.                                                *)
THEOREM OutputSettles == Spec => SettlesUncut
<1>1. InfoInv /\ NameInv /\ [Next]_vars =>
        [slot = "changed" /\ slot' = "told" =>
           LET Unnamed(i) == Filter(i.pairs, Pairs(Keys \ {"name"}))
           IN  Full(info) \/
                 /\ rounds >= 1 => Unnamed(info') = Unnamed(info)
                 /\ rounds >= 2 => info' = info]_infoVars
  <2> DEFINE D == Keys \ {"name"}
  <2> SUFFICES ASSUME InfoInv, NameInv, [Next]_vars, slot = "changed", slot' = "told",
                      ~Full(info)
               PROVE  /\ rounds >= 1 => Filter(info'.pairs, Pairs(D)) = Filter(info.pairs, Pairs(D))
                      /\ rounds >= 2 => info' = info
    OBVIOUS
  <2>1. Forward BY ForwardOnly
  <2>2. /\ IsInfo(info) /\ ~Refuses /\ ~Cheating(info) /\ Size(info) < MaxInfo
        /\ info' = Stored(SanitizeUserinfo(info))
        /\ DirtyKeys(info) = {} => info' = info
    BY <2>1, ForwardLemma
  <2>3. ASSUME rounds >= 1 PROVE DirtyKeys(info) \subseteq {"name"}
    BY <2>2, <2>3 DEF InfoInv, DirtyKeys
  <2>4. ASSUME rounds >= 1 PROVE Filter(info'.pairs, Pairs(D)) = Filter(info.pairs, Pairs(D))
    <3>1. D \subseteq Keys \ DirtyKeys(info) BY <2>3, <2>4
    <3> HIDE DEF D
    <3> QED BY <2>2, <3>1, StoredOthers
  <2>5. ASSUME rounds >= 2 PROVE info' = info
    <3>1. rounds >= 1
      <4>1. rounds \in Nat BY InfoNumbers DEF InfoInv, InfoTypeOK
      <4> QED BY <2>5, <4>1
    <3>2. ~IsDirty(info, "name")
      <4> SUFFICES ASSUME Has(info, "name") PROVE CleanName(NameOf(info)) = NameOf(info)
        BY DEF IsDirty, Dirty, NameOf
      <4>1. CleanText(NameOf(info)) BY <2>2, <2>5 DEF NameInv
      <4> QED BY <4>1, CleanFixed
    <3>3. DirtyKeys(info) = {} BY <2>3, <3>1, <3>2 DEF DirtyKeys
    <3> QED BY <2>2, <3>3
  <2> QED BY <2>4, <2>5
<1> QED BY <1>1, NameInvariance, PTL DEF Spec, SettlesUncut

-----------------------------------------------------------------------------
(* How long some words are.  The steps by which Length adds up. *)
LengthSteps(words, F) ==
    /\ F[0] = 0
    /\ \A n \in 1 .. Len(words) :
          F[n] = F[n - 1] + words[n].size + (IF n = 1 THEN 0 ELSE 1)

LEMMA LengthUnfold ==
    ASSUME NEW words \in Seq(Words)
    PROVE  \E F \in [0 .. Len(words) -> Nat] :
              LengthSteps(words, F) /\ Length(words) = F[Len(words)]
<1> DEFINE N == Len(words)
           Sep(n) == IF n = 1 THEN 0 ELSE 1
           D == [n \in 1 .. N |-> [x \in Nat |-> x + words[n].size + Sep(n)]]
           Body(g, n) == IF n = 0 THEN 0 ELSE g[n - 1] + words[n].size + Sep(n)
           Fcn(g) == [n \in 0 .. N |-> Body(g, n)]
           Upto == CHOOSE g : g = Fcn(g)
<1>1. N \in Nat /\ \A n \in 1 .. N : words[n].size \in Nat
  <2>1. N \in Nat BY LenProperties
  <2>2. \A n \in 1 .. N : words[n] \in Words BY ElementOfSeq
  <2> QED BY <2>1, <2>2 DEF Words
<1>2. \A n \in 1 .. N : Sep(n) \in Nat OBVIOUS
<1>3. \A n \in 1 .. N, x \in Nat : D[n][x] \in Nat BY <1>1, <1>2
<1>4. PICK f : IsRun(N, Nat, 0, D, f)
  <2> HIDE DEF D, N
  <2> QED BY <1>1, <1>3, RecursionExists
<1>5. f = Fcn(f)
  <2>1. f \in [0 .. N -> Nat] /\ f[0] = 0 /\ \A n \in 1 .. N : f[n] = D[n][f[n - 1]]
    BY <1>4 DEF IsRun
  <2>2. ASSUME NEW n \in 0 .. N PROVE f[n] = Body(f, n)
    <3>1. CASE n = 0 BY <2>1, <3>1
    <3>2. CASE n # 0
      <4>1. n \in 1 .. N /\ n - 1 \in 0 .. N BY <1>1, <3>2
      <4>2. f[n - 1] \in Nat BY <2>1, <4>1
      <4> HIDE DEF Sep
      <4> QED BY <2>1, <3>2, <4>1, <4>2
    <3> QED BY <3>1, <3>2
  <2> HIDE DEF Body
  <2> QED BY <2>1, <2>2
<1>6. Upto = Fcn(Upto)
  <2> HIDE DEF Fcn
  <2> QED BY <1>5
<1>7. Length(words) = Upto[N] BY DEF Length
<1>8. LengthSteps(words, Upto)
  <2> HIDE DEF Upto
  <2>1. Upto[0] = 0 BY <1>1, <1>6
  <2>2. ASSUME NEW n \in 1 .. N PROVE Upto[n] = Upto[n - 1] + words[n].size + Sep(n)
    <3>1. n \in 0 .. N /\ n # 0 BY <1>1
    <3>2. Upto[n] = Fcn(Upto)[n] BY <1>6
    <3> HIDE DEF N, Sep
    <3> QED BY <3>1, <3>2
  <2> QED BY <2>1, <2>2 DEF LengthSteps
<1>9. Upto \in [0 .. N -> Nat]
  <2> DEFINE Good == {n \in Nat : n <= N => Upto[n] \in Nat}
  <2> HIDE DEF Upto
  <2>1. 0 \in Good BY <1>8 DEF LengthSteps
  <2>2. ASSUME NEW n \in Nat, n \in Good PROVE n + 1 \in Good
    <3> SUFFICES ASSUME n + 1 <= N PROVE Upto[n + 1] \in Nat OBVIOUS
    <3>1. Upto[n] \in Nat /\ n + 1 \in 1 .. N /\ words[n + 1].size \in Nat
      BY <1>1, <2>2
    <3>2. Upto[n + 1] = Upto[n] + words[n + 1].size + Sep(n + 1)
      BY <1>8, <3>1 DEF LengthSteps
    <3> QED BY <3>1, <3>2, <1>2
  <2>3. \A n \in Nat : n \in Good
    <3> HIDE DEF Good
    <3> QED BY <2>1, <2>2, NatSetInduction
  <2>4. \A n \in 0 .. N : Upto[n] \in Nat BY <1>1, <2>3
  <2>5. Upto = [n \in 0 .. N |-> Upto[n]]
    <3>1. Fcn(Upto) = [n \in 0 .. N |-> Fcn(Upto)[n]] OBVIOUS
    <3> QED BY <1>6, <3>1
  <2> QED BY <2>4, <2>5
<1> HIDE DEF Upto
<1> QED BY <1>7, <1>8, <1>9

LEMMA LengthType == ASSUME NEW words \in Seq(Words) PROVE Length(words) \in Nat
  BY LengthUnfold, LenProperties

LEMMA LengthOne == ASSUME NEW w \in Words PROVE Length(<<w>>) = w.size
<1> DEFINE words == <<w>>
<1>1. words \in Seq(Words) /\ Len(words) = 1 /\ words[1] = w OBVIOUS
<1>2. w.size \in Nat BY DEF Words
<1> HIDE DEF words
<1>3. PICK F \in [0 .. Len(words) -> Nat] :
         LengthSteps(words, F) /\ Length(words) = F[Len(words)]
  BY <1>1, LengthUnfold
<1>4. F[0] = 0 /\ F[1] = F[1 - 1] + w.size + 0 BY <1>1, <1>3 DEF LengthSteps
<1>5. Length(words) = w.size BY <1>1, <1>2, <1>3, <1>4
<1> QED BY <1>5 DEF words

-----------------------------------------------------------------------------
(* What the buffers show of a word. *)
LEMMA EmptyWord == Empty \in Words /\ Empty.size = 0 /\ Empty.num = 0 /\ Empty.lit = "none"
<1>1. Empty \in [lit : Literals, size : Nat, of : Kinds, at : Nat, num : Int]
  <2>1. "none" \in Literals BY DEF Literals
  <2>2. "letters" \in Kinds BY DEF Kinds
  <2>3. 0 \in Nat /\ 0 \in Int OBVIOUS
  <2> QED BY <2>1, <2>2, <2>3 DEF Empty
<1>2. Empty.at <= Empty.size /\ Empty.size = 0 /\ Empty.num = 0 /\ Empty.lit = "none"
  BY DEF Empty
<1> QED BY <1>1, <1>2 DEF Words

LEMMA CutLemma ==
    ASSUME NEW w \in Words, NEW n \in Nat
    PROVE  /\ Cut(w, n).lit = w.lit /\ Cut(w, n).num = w.num
           /\ Cut(w, n).size = IF w.size <= n THEN w.size ELSE n
           /\ w.size <= n => Cut(w, n) = w
  BY DEF Cut, Words

LEMMA PrefixLemma ==
    ASSUME NEW w \in Words, NEW lit, NEW n \in 0 .. 127
    PROVE  StrCasePrefix(Cut(w, 127), lit, n) <=> lit \in Stems(w.lit) /\ w.size >= n
<1>1. w.size \in Nat /\ Cut(w, 127).lit = w.lit
      /\ Cut(w, 127).size = IF w.size <= 127 THEN w.size ELSE 127
  BY CutLemma DEF Words
<1> QED BY <1>1 DEF StrCasePrefix

LEMMA EqLemma ==
    ASSUME NEW w \in Words, NEW lit, NEW n \in 0 .. 126
    PROVE  StrCaseEq(Cut(w, 127), lit, n) <=> lit \in Stems(w.lit) /\ w.size = n
<1>1. w.size \in Nat /\ Cut(w, 127).lit = w.lit
      /\ Cut(w, 127).size = IF w.size <= 127 THEN w.size ELSE 127
  BY CutLemma DEF Words
<1> QED BY <1>1 DEF StrCaseEq

(* The words of a line, and those after the first. *)
LEMMA LineLemma ==
    ASSUME NEW line, IsLine(line)
    PROVE  /\ Len(line) \in Nat \ {0} /\ line[1] \in Words
           /\ Tail(line) \in Seq(Words) /\ Len(Tail(line)) = Len(line) - 1
           /\ \A i \in 1 .. (Len(line) - 1) : Tail(line)[i] = line[i + 1] /\ line[i + 1] \in Words
           /\ \A i, n \in Nat : /\ Word(line, i) \in Words
                                /\ Argv(line, i, n) = Cut(Word(line, i), n)
           /\ Word(line, 0) = line[1]
<1>1. line \in Seq(Words) /\ line # <<>> BY DEF IsLine
<1>2. Len(line) \in Nat \ {0} BY <1>1, LenProperties, EmptySeq
<1>3. \A i \in 1 .. Len(line) : line[i] \in Words BY <1>1, ElementOfSeq
<1>4. /\ Tail(line) \in Seq(Words) /\ Len(Tail(line)) = Len(line) - 1
      /\ \A i \in 1 .. (Len(line) - 1) : Tail(line)[i] = line[i + 1]
  BY <1>1, <1>2, HeadTailProperties
<1>5. ASSUME NEW i \in Nat, NEW n \in Nat
      PROVE  Word(line, i) \in Words /\ Argv(line, i, n) = Cut(Word(line, i), n)
  <2>1. CASE i < Len(line)
    <3>1. i + 1 \in 1 .. Len(line) BY <1>2, <2>1
    <3> QED BY <1>3, <2>1, <3>1 DEF Word, Argv
  <2>2. CASE ~(i < Len(line))
    <3>1. Cut(Empty, n) = Empty BY EmptyWord, CutLemma
    <3> QED BY <2>2, <3>1, EmptyWord DEF Word, Argv
  <2> QED BY <2>1, <2>2
<1>6. \A i \in 1 .. (Len(line) - 1) : line[i + 1] \in Words
  <2> SUFFICES ASSUME NEW i \in 1 .. (Len(line) - 1) PROVE line[i + 1] \in Words OBVIOUS
  <2>1. i + 1 \in 1 .. Len(line) BY <1>2
  <2> QED BY <1>3, <2>1
<1>7. Word(line, 0) = line[1] BY <1>2 DEF Word
<1> QED BY <1>2, <1>3, <1>4, <1>5, <1>6, <1>7

(* Nothing is lost of words that are not too long. *)
LEMMA ArgsLemma ==
    ASSUME NEW line, IsLine(line), \A i \in DOMAIN line : line[i].size <= 255
    PROVE  Args(line) = Tail(line)
<1>1. /\ Len(line) \in Nat \ {0} /\ Tail(line) \in Seq(Words) /\ Len(Tail(line)) = Len(line) - 1
      /\ \A i \in 1 .. (Len(line) - 1) : Tail(line)[i] = line[i + 1] /\ line[i + 1] \in Words
  BY LineLemma
<1>2. ASSUME NEW i \in 1 .. (Len(line) - 1) PROVE Cut(line[i + 1], 255) = Tail(line)[i]
  <2>1. DOMAIN line = 1 .. Len(line) BY LenProperties DEF IsLine
  <2>2. line[i + 1].size <= 255 BY <1>1, <2>1
  <2>3. line[i + 1] \in Words BY <1>1
  <2> QED BY <1>1, <2>2, <2>3, CutLemma
<1>3. Args(line) = [i \in 1 .. (Len(line) - 1) |-> Tail(line)[i]] BY <1>2 DEF Args
<1>4. Tail(line) = [i \in 1 .. Len(Tail(line)) |-> Tail(line)[i]]
  <2> DEFINE t == Tail(line)
  <2>1. t \in Seq(Words) BY <1>1
  <2> HIDE DEF t
  <2>2. t \in [1 .. Len(t) -> Words] BY <2>1, LenProperties
  <2>3. t = [i \in 1 .. Len(t) |-> t[i]] BY <2>2
  <2> QED BY <2>3 DEF t
<1> QED BY <1>1, <1>3, <1>4

-----------------------------------------------------------------------------
(* The literals that a word's letters begin with. *)
LEMMA StemsLemma ==
    ASSUME NEW l
    PROVE  /\ \A x : x \notin {"am", "amtele", "say"} => (x \in Stems(l) <=> l = x)
           /\ "am" \in Stems(l) <=> l = "am" \/ l \in JAPlus
           /\ "amtele" \in Stems(l) <=> l \in {"amtele", "amtelemark"}
           /\ "say" \in Stems(l) <=> l \in {"say", "say_team"}
  BY DEF Stems, JAPlus

(* The command word: what it begins with. *)
Am(c, lit, n) == c.lit = lit /\ c.size >= n

LEMMA AmLemma ==
    ASSUME NEW line, IsLine(line)
    PROVE  /\ \A lit \in JAPlus \ {"amtele"}, n \in 0 .. 127 :
                 StrCasePrefix(Argv(line, 0, 127), lit, n) <=> Am(line[1], lit, n)
           /\ StrCasePrefix(Argv(line, 0, 127), "amtele", 6)
                <=> Am(line[1], "amtele", 6) \/ Am(line[1], "amtelemark", 6)
           /\ StrCasePrefix(Argv(line, 0, 127), "am", 2)
                <=> line[1].lit \in JAPlus /\ line[1].size >= 2
<1>1. line[1] \in Words /\ Argv(line, 0, 127) = Cut(line[1], 127) BY LineLemma
<1>2. ASSUME NEW lit, NEW n \in 0 .. 127
      PROVE  StrCasePrefix(Argv(line, 0, 127), lit, n)
               <=> lit \in Stems(line[1].lit) /\ line[1].size >= n
  BY <1>1, PrefixLemma
<1>3. ASSUME NEW lit \in JAPlus \ {"amtele"}, NEW n \in 0 .. 127
      PROVE  StrCasePrefix(Argv(line, 0, 127), lit, n) <=> Am(line[1], lit, n)
  <2>1. lit \notin {"am", "amtele", "say"} BY DEF JAPlus
  <2>2. lit \in Stems(line[1].lit) <=> line[1].lit = lit BY <2>1, StemsLemma
  <2> QED BY <1>2, <2>2 DEF Am
<1>4. StrCasePrefix(Argv(line, 0, 127), "amtele", 6)
        <=> Am(line[1], "amtele", 6) \/ Am(line[1], "amtelemark", 6)
  BY <1>2, StemsLemma DEF Am
<1>5. line[1].lit # "am" BY <1>1 DEF Words, Literals, JAPlus
<1> QED BY <1>2, <1>3, <1>4, <1>5, StemsLemma

(* Which of the commands of JA+ gets which test. *)
JAPlusTest(line) ==
    LET c == line[1]
        args == Args(line)
        arg1 == Argv(line, 1, 127)
        OneWord == Len(line) = 2 /\ arg1.size \in 1 .. 64
        Unclean(n) == HasCRLF(args) \/ HasChaining(args) \/ Length(args) > n
    IN  IF Am(c, "amsay", 5) \/ Am(c, "ampsay", 6) THEN HasCRLF(args) \/ Length(args) > 256
        ELSE IF Am(c, "amvstr", 6) THEN ~(OneWord /\ IsTokenChars(arg1))
        ELSE IF Am(c, "ammap", 5) THEN ~(OneWord /\ IsMapChars(arg1))
        ELSE IF Am(c, "amlogin", 7) THEN HasCRLF(args) \/ Length(args) > 128
        ELSE IF Am(c, "amrename", 8)
             THEN arg1.size \notin 1 .. 64 \/ HasCRLF(<<arg1>>) \/ HasChaining(<<arg1>>)
        ELSE IF Am(c, "amtele", 6) \/ Am(c, "amtelemark", 6) \/ Am(c, "amorigin", 8)
             THEN Unclean(512) \/ ~IsNumberChars(args)
        ELSE IF Am(c, "amplayefx", 9) \/ Am(c, "amweather", 9)
             THEN Unclean(512) \/ arg1.size = 0 \/ ~IsPathChars(arg1)
        ELSE IF Am(c, "ampoll", 6) THEN Unclean(256)
        ELSE Unclean(512)

LEMMA JAPlusLemma ==
    ASSUME NEW line, IsLine(line) PROVE JAPlusBlock(line) <=> JAPlusTest(line)
<1> DEFINE c == line[1]
           cmd == Argv(line, 0, 127)
<1>1. /\ StrCasePrefix(cmd, "amsay", 5) <=> Am(c, "amsay", 5)
      /\ StrCasePrefix(cmd, "ampsay", 6) <=> Am(c, "ampsay", 6)
      /\ StrCasePrefix(cmd, "amvstr", 6) <=> Am(c, "amvstr", 6)
      /\ StrCasePrefix(cmd, "ammap", 5) <=> Am(c, "ammap", 5)
      /\ StrCasePrefix(cmd, "amlogin", 7) <=> Am(c, "amlogin", 7)
      /\ StrCasePrefix(cmd, "amrename", 8) <=> Am(c, "amrename", 8)
      /\ StrCasePrefix(cmd, "amtelemark", 10) <=> Am(c, "amtelemark", 10)
      /\ StrCasePrefix(cmd, "amorigin", 8) <=> Am(c, "amorigin", 8)
      /\ StrCasePrefix(cmd, "amplayefx", 9) <=> Am(c, "amplayefx", 9)
      /\ StrCasePrefix(cmd, "amweather", 9) <=> Am(c, "amweather", 9)
      /\ StrCasePrefix(cmd, "ampoll", 6) <=> Am(c, "ampoll", 6)
      /\ StrCasePrefix(cmd, "amtele", 6) <=> Am(c, "amtele", 6) \/ Am(c, "amtelemark", 6)
  BY AmLemma DEF JAPlus
<1>2. Am(c, "amtelemark", 10) => Am(c, "amtelemark", 6)
  <2>1. c.size \in Nat BY LineLemma DEF Words
  <2> QED BY <2>1 DEF Am
<1>3. \A l, m, n, k : Am(c, l, n) /\ Am(c, m, k) => l = m BY DEF Am
<1>4. CASE Am(c, "amsay", 5) \/ Am(c, "ampsay", 6)
  BY <1>1, <1>2, <1>3, <1>4 DEF JAPlusBlock, JAPlusTest
<1>5. CASE Am(c, "amvstr", 6)
  BY <1>1, <1>2, <1>3, <1>5 DEF JAPlusBlock, JAPlusTest
<1>6. CASE Am(c, "ammap", 5)
  BY <1>1, <1>2, <1>3, <1>6 DEF JAPlusBlock, JAPlusTest
<1>7. CASE Am(c, "amlogin", 7)
  BY <1>1, <1>2, <1>3, <1>7 DEF JAPlusBlock, JAPlusTest
<1>8. CASE Am(c, "amrename", 8)
  BY <1>1, <1>2, <1>3, <1>8 DEF JAPlusBlock, JAPlusTest
<1>9. CASE Am(c, "amtele", 6) \/ Am(c, "amtelemark", 6) \/ Am(c, "amorigin", 8)
  BY <1>1, <1>2, <1>3, <1>9 DEF JAPlusBlock, JAPlusTest
<1>10. CASE Am(c, "amplayefx", 9) \/ Am(c, "amweather", 9)
  BY <1>1, <1>2, <1>3, <1>10 DEF JAPlusBlock, JAPlusTest
<1>11. CASE Am(c, "ampoll", 6)
  BY <1>1, <1>2, <1>3, <1>11 DEF JAPlusBlock, JAPlusTest
<1> QED BY <1>1, <1>2, <1>4, <1>5, <1>6, <1>7, <1>8, <1>9, <1>10, <1>11 DEF JAPlusBlock, JAPlusTest

-----------------------------------------------------------------------------
(* A comparison with the right length is one with the whole literal. *)
LEMMA WholeLemma ==
    ASSUME NEW line, IsLine(line), NEW i \in Nat
    PROVE  \A lit \in DOMAIN Letters :
              StrCaseEq(Argv(line, i, 127), lit, Letters[lit]) <=> Whole(Word(line, i), lit)
<1>1. Word(line, i) \in Words /\ Argv(line, i, 127) = Cut(Word(line, i), 127) BY LineLemma
<1>2. \A lit \in DOMAIN Letters : Letters[lit] \in 0 .. 126 BY DEF Letters
<1> QED BY <1>1, <1>2, EqLemma DEF Whole

LEMMA CallvoteLemma ==
    ASSUME NEW line, IsLine(line), NEW v \in Int
    PROVE  Callvote(Argv(line, 1, 127), v)
             <=> \E lit \in DOMAIN Limits : Whole(Word(line, 1), lit) /\ v \notin Limits[lit]
<1> DEFINE a == Word(line, 1)
           is == Argv(line, 1, 127)
<1>1. /\ StrCaseEq(is, "capturelimit", 12) <=> Whole(a, "capturelimit")
      /\ StrCaseEq(is, "fraglimit", 9) <=> Whole(a, "fraglimit")
      /\ StrCaseEq(is, "g_doWarmup", 10) <=> Whole(a, "g_doWarmup")
      /\ StrCaseEq(is, "map_restart", 11) <=> Whole(a, "map_restart")
      /\ StrCaseEq(is, "timelimit", 9) <=> Whole(a, "timelimit")
  BY WholeLemma DEF Letters
<1>2. \A l, m \in DOMAIN Limits : Whole(a, l) /\ Whole(a, m) => l = m
  BY StemsLemma DEF Whole, Limits
<1>3. DOMAIN Limits = {"capturelimit", "fraglimit", "g_doWarmup", "map_restart", "timelimit"}
  BY DEF Limits
<1> HIDE DEF a, is
<1>4. CASE \E lit \in DOMAIN Limits : Whole(a, lit)
  <2>1. PICK lit \in DOMAIN Limits : Whole(a, lit) BY <1>4
  <2>2. /\ StrCaseEq(is, "capturelimit", 12) <=> lit = "capturelimit"
        /\ StrCaseEq(is, "fraglimit", 9) <=> lit = "fraglimit"
        /\ StrCaseEq(is, "g_doWarmup", 10) <=> lit = "g_doWarmup"
        /\ StrCaseEq(is, "map_restart", 11) <=> lit = "map_restart"
        /\ StrCaseEq(is, "timelimit", 9) <=> lit = "timelimit"
    BY <1>1, <1>2, <1>3, <2>1
  <2>3. \A l \in DOMAIN Limits : Whole(a, l) <=> l = lit BY <1>2, <2>1
  <2>4. Callvote(is, v) <=> v \notin Limits[lit]
    <3>1. CASE lit \in {"capturelimit", "fraglimit"}
      <4>1. Limits[lit] = Nat
        <5>1. Limits["capturelimit"] = Nat /\ Limits["fraglimit"] = Nat BY DEF Limits
        <5>2. CASE lit = "capturelimit" BY <5>1, <5>2
        <5>3. CASE lit = "fraglimit" BY <5>1, <5>3
        <5> QED BY <3>1, <5>2, <5>3
      <4>2. Callvote(is, v) <=> v < 0 BY <2>2, <3>1 DEF Callvote
      <4>3. v \notin Nat <=> v < 0 OBVIOUS
      <4> QED BY <4>1, <4>2, <4>3
    <3>2. CASE lit = "g_doWarmup"
      <4>1. Limits[lit] = 0 .. 1
        <5>1. Limits["g_doWarmup"] = 0 .. 1 BY DEF Limits
        <5> QED BY <3>2, <5>1
      <4>2. Callvote(is, v) <=> v \notin 0 .. 1 BY <2>2, <3>2 DEF Callvote
      <4> QED BY <4>1, <4>2
    <3>3. CASE lit = "map_restart"
      <4>1. Limits[lit] = 0 .. 60
        <5>1. Limits["map_restart"] = 0 .. 60 BY DEF Limits
        <5> QED BY <3>3, <5>1
      <4>2. Callvote(is, v) <=> v \notin 0 .. 60
        <5>1. /\ ~(StrCaseEq(is, "capturelimit", 12) \/ StrCaseEq(is, "fraglimit", 9))
              /\ ~StrCaseEq(is, "g_doWarmup", 10) /\ StrCaseEq(is, "map_restart", 11)
              /\ ~StrCaseEq(is, "timelimit", 9)
          BY <2>2, <3>3
        <5> QED BY <5>1 DEF Callvote
      <4> QED BY <4>1, <4>2
    <3>4. CASE lit = "timelimit"
      <4> DEFINE minutes == 0 .. 35790
      <4>1. Limits[lit] = minutes
        <5>1. Limits["timelimit"] = minutes BY DEF Limits
        <5> QED BY <3>4, <5>1
      <4>2. Callvote(is, v) <=> v \notin minutes
        <5>1. /\ ~(StrCaseEq(is, "capturelimit", 12) \/ StrCaseEq(is, "fraglimit", 9))
              /\ ~StrCaseEq(is, "g_doWarmup", 10) /\ ~StrCaseEq(is, "map_restart", 11)
              /\ StrCaseEq(is, "timelimit", 9)
          BY <2>2, <3>4
        <5> QED BY <5>1 DEF Callvote
      <4> HIDE DEF minutes
      <4> QED BY <4>1, <4>2
    <3> QED BY <1>3, <3>1, <3>2, <3>3, <3>4
  <2> QED BY <2>1, <2>3, <2>4 DEF a, is
<1>5. CASE ~\E lit \in DOMAIN Limits : Whole(a, lit)
  <2> DEFINE Is(lit, n) == StrCaseEq(is, lit, n)
  <2>1. /\ ~(Is("capturelimit", 12) \/ Is("fraglimit", 9)) /\ ~Is("g_doWarmup", 10)
        /\ ~Is("map_restart", 11) /\ ~Is("timelimit", 9)
    BY <1>1, <1>3, <1>5
  <2>2. ~Callvote(is, v) BY ONLY <2>1 DEF Callvote
  <2> QED BY <1>5, <2>2 DEF a, is
<1> QED BY <1>4, <1>5

(* The commands of the base game that are blocked. *)
LEMMA VanillaLemma ==
    ASSUME NEW line, IsLine(line)
    PROVE  VanillaBlock(line) <=>
             \/ CheatCommand(line)
             \/ CrashesGame(line, {"ragnos"})
             \/ /\ Whole(line[1], "npc") /\ Whole(Word(line, 1), "spawn")
                /\ StrCaseEq(Argv(line, 2, 127), "saber_droid", 10)
             \/ HasCRLF(Args(line))
             \/ IF Among(line[1], {"say", "say_team", "tell"})
                THEN Length(Args(line)) > 256 ELSE HasChaining(Args(line))
<1> DEFINE c == line[1]
           a == Word(line, 1)
           b == Word(line, 2)
           cmd == Argv(line, 0, 127)
           arg1 == Argv(line, 1, 127)
           arg2 == Argv(line, 2, 127)
<1>1. /\ StrCaseEq(cmd, "gc", 2) <=> Whole(c, "gc")
      /\ StrCaseEq(cmd, "npc", 3) <=> Whole(c, "npc")
      /\ StrCaseEq(cmd, "team", 4) <=> Whole(c, "team")
      /\ StrCaseEq(cmd, "callteamvote", 12) <=> Whole(c, "callteamvote")
      /\ StrCaseEq(cmd, "callvote", 8) <=> Whole(c, "callvote")
      /\ StrCaseEq(cmd, "say", 3) <=> Whole(c, "say")
      /\ StrCaseEq(cmd, "say_team", 8) <=> Whole(c, "say_team")
      /\ StrCaseEq(cmd, "tell", 4) <=> Whole(c, "tell")
  <2>1. Word(line, 0) = c BY LineLemma
  <2>2. \A lit \in DOMAIN Letters : StrCaseEq(cmd, lit, Letters[lit]) <=> Whole(c, lit)
    BY <2>1, WholeLemma
  <2> HIDE DEF cmd, c
  <2> QED BY <2>2 DEF Letters
<1>2. /\ StrCaseEq(arg1, "spawn", 5) <=> Whole(a, "spawn")
      /\ StrCaseEq(arg1, "follow1", 7) <=> Whole(a, "follow1")
      /\ StrCaseEq(arg1, "follow2", 7) <=> Whole(a, "follow2")
  BY WholeLemma DEF Letters
<1>3. StrCaseEq(arg2, "ragnos", 6) <=> Whole(b, "ragnos") BY WholeLemma DEF Letters
<1>4. arg1.num = a.num /\ Argv(line, 2, 255).num = b.num /\ b.num \in Int
  <2>1. a \in Words /\ arg1 = Cut(a, 127) BY LineLemma
  <2>2. b \in Words /\ Argv(line, 2, 255) = Cut(b, 255) BY LineLemma
  <2>3. b.num \in Int BY <2>2 DEF Words
  <2> QED BY <2>1, <2>2, <2>3, CutLemma
<1>5. Callvote(arg1, b.num)
        <=> \E lit \in DOMAIN Limits : Whole(a, lit) /\ b.num \notin Limits[lit]
  BY <1>4, CallvoteLemma
<1>6. CrashesGame(line, {"ragnos"}) <=>
        \/ Whole(c, "gc") /\ a.num \notin 0 .. (SlotCount - 1)
        \/ Whole(c, "npc") /\ Whole(a, "spawn") /\ Whole(b, "ragnos")
        \/ Whole(c, "team") /\ (Whole(a, "follow1") \/ Whole(a, "follow2"))
        \/ Whole(c, "callteamvote")
        \/ Whole(c, "callvote") /\ Callvote(arg1, b.num)
  <2>1. Among(b, {"ragnos"}) <=> Whole(b, "ragnos") BY DEF Among
  <2>2. Among(a, {"follow1", "follow2"}) <=> Whole(a, "follow1") \/ Whole(a, "follow2")
    BY DEF Among
  <2> HIDE DEF a, b, c, arg1
  <2> QED BY <1>5, <2>1, <2>2 DEF CrashesGame, a, b, c
<1>7. Among(c, {"say", "say_team", "tell"}) <=>
        Whole(c, "say") \/ Whole(c, "say_team") \/ Whole(c, "tell")
  BY DEF Among
<1>8. VanillaBlock(line) <=>
        \/ CheatCommand(line)
        \/ Whole(c, "gc") /\ a.num \notin 0 .. (SlotCount - 1)
        \/ /\ Whole(c, "npc") /\ Whole(a, "spawn")
           /\ Whole(b, "ragnos") \/ StrCaseEq(arg2, "saber_droid", 10)
        \/ Whole(c, "team") /\ (Whole(a, "follow1") \/ Whole(a, "follow2"))
        \/ Whole(c, "callteamvote")
        \/ Whole(c, "callvote") /\ Callvote(arg1, b.num)
        \/ HasCRLF(Args(line))
        \/ IF Whole(c, "say") \/ Whole(c, "say_team") \/ Whole(c, "tell")
           THEN Length(Args(line)) > 256 ELSE HasChaining(Args(line))
  BY <1>1, <1>2, <1>3, <1>4 DEF VanillaBlock
<1> HIDE DEF a, b, c, arg1, arg2
<1> QED BY <1>6, <1>7, <1>8 DEF a, b, c, arg1, arg2

-----------------------------------------------------------------------------
(* The commands that a test for JA+ is for are no others. *)
LEMMA AmOnly ==
    ASSUME NEW line, IsLine(line), line[1].lit \in JAPlus
    PROVE  /\ ~CrashesGame(line, {"ragnos"})
           /\ ~Among(line[1], {"say", "say_team", "tell"})
<1>1. \A lit \in {"gc", "npc", "team", "callteamvote", "callvote", "say_team", "tell", "say"} :
        ~Whole(line[1], lit)
  BY StemsLemma DEF Whole, JAPlus
<1>2. ~CrashesGame(line, {"ragnos"}) BY <1>1 DEF CrashesGame
<1>3. ~Among(line[1], {"say", "say_team", "tell"}) BY <1>1 DEF Among
<1> QED BY <1>2, <1>3

(* What the policy says of a command, in terms of what it begins with. *)
LEMMA PolicyWords ==
    ASSUME NEW line, IsLine(line)
    PROVE  /\ ExecSink(line) <=> Am(line[1], "amvstr", 6) \/ Am(line[1], "ammap", 5)
           /\ Password(line) <=> Am(line[1], "amlogin", 7)
           /\ Chat(line) <=> \/ Am(line[1], "amsay", 5) \/ Am(line[1], "ampsay", 6)
                             \/ Among(line[1], {"say", "say_team", "tell"})
           /\ Starts(line[1], "amrename") <=> Am(line[1], "amrename", 8)
<1> DEFINE c == line[1]
<1>1. \A lit \in {"amvstr", "ammap", "amlogin", "amsay", "ampsay", "amrename"} :
        Starts(c, lit) <=> Am(c, lit, Letters[lit])
  BY StemsLemma DEF Starts, Am
<1>2. /\ Letters["amvstr"] = 6 /\ Letters["ammap"] = 5 /\ Letters["amlogin"] = 7
      /\ Letters["amsay"] = 5 /\ Letters["ampsay"] = 6 /\ Letters["amrename"] = 8
  BY DEF Letters
<1> HIDE DEF c
<1>3. /\ Starts(c, "amvstr") <=> Am(c, "amvstr", 6)
      /\ Starts(c, "ammap") <=> Am(c, "ammap", 5)
      /\ Starts(c, "amlogin") <=> Am(c, "amlogin", 7)
      /\ Starts(c, "amsay") <=> Am(c, "amsay", 5)
      /\ Starts(c, "ampsay") <=> Am(c, "ampsay", 6)
      /\ Starts(c, "amrename") <=> Am(c, "amrename", 8)
  BY <1>1, <1>2
<1> QED BY <1>3 DEF c, ExecSink, Password, Chat

(* What has passed and was seen whole is permitted. *)
LEMMA PolicySound ==
    ASSUME NEW line, IsLine(line), Length(Tail(line)) <= 1023,
           SeenWhole(line), ~ShouldBlockClientCommand(line)
    PROVE  Permitted(line)
<1> DEFINE c == line[1]
           args == Tail(line)
           arg1 == Argv(line, 1, 127)
<1>1. /\ c \in Words /\ c.size \in Nat /\ args \in Seq(Words) /\ Length(args) \in Nat
  BY LineLemma, LengthType DEF Words
<1>2. Args(line) = args /\ ~Am(c, "amrename", 8)
  BY ArgsLemma, PolicyWords DEF SeenWhole
<1>3. StrCasePrefix(Argv(line, 0, 127), "am", 2) <=> c.lit \in JAPlus /\ c.size >= 2
  BY AmLemma
<1>4. "am" \in Stems(c.lit) <=> c.lit \in JAPlus
  BY <1>1, StemsLemma DEF Words, Literals, JAPlus
<1>5. Permitted(line) <=>
        /\ ~HasCRLF(args)
        /\ Length(args) <= Cap(line)
        /\ ExecSink(line) => Len(line) = 2 /\ Sanitized(line[2])
        /\ HasChaining(args) => Password(line) \/ Chat(line)
        /\ ~CrashesGame(line, {"ragnos"})
  BY DEF Permitted, Rest
<1>6. CASE c.lit \in JAPlus /\ c.size >= 2
  <2>1. ~JAPlusTest(line) BY <1>3, <1>6, JAPlusLemma DEF ShouldBlockClientCommand
  <2>2. ~CrashesGame(line, {"ragnos"}) /\ ~Among(c, {"say", "say_team", "tell"})
    BY <1>6, AmOnly
  <2>3. Cap(line) = IF Am(c, "amsay", 5) \/ Am(c, "ampsay", 6) THEN 256
                    ELSE IF Am(c, "amlogin", 7) THEN 128 ELSE 512
    <3>1. Chat(line) <=> Am(c, "amsay", 5) \/ Am(c, "ampsay", 6) BY <2>2, PolicyWords
    <3>2. Password(line) <=> Am(c, "amlogin", 7) BY PolicyWords
    <3>3. ~(Am(c, "amlogin", 7) /\ (Am(c, "amsay", 5) \/ Am(c, "ampsay", 6))) BY DEF Am
    <3> HIDE DEF c
    <3> QED BY <1>4, <1>6, <3>1, <3>2, <3>3 DEF Cap, c
  <2>4. CASE Am(c, "amsay", 5) \/ Am(c, "ampsay", 6)
    <3>1. ~HasCRLF(args) /\ ~(Length(args) > 256) BY <1>2, <2>1, <2>4 DEF JAPlusTest
    <3>2. ~ExecSink(line) /\ Chat(line) BY <2>4, PolicyWords DEF Am
    <3> QED BY <1>1, <1>5, <2>2, <2>3, <2>4, <3>1, <3>2
  <2>5. CASE Am(c, "amvstr", 6) \/ Am(c, "ammap", 5)
    <3>1. Len(line) = 2 /\ arg1.size \in 1 .. 64 /\ arg1.of \in {"letters", "digits", "path"}
      BY <2>1, <2>5 DEF JAPlusTest, Am, IsTokenChars, IsMapChars
    <3>2. line[2] \in Words /\ arg1 = Cut(line[2], 127) /\ args[1] = line[2] /\ Len(args) = 1
      <4>1. Word(line, 1) = line[2] BY <3>1 DEF Word
      <4>2. arg1 = Cut(Word(line, 1), 127) /\ Word(line, 1) \in Words BY LineLemma
      <4>3. /\ Len(args) = Len(line) - 1
            /\ \A i \in 1 .. (Len(line) - 1) : args[i] = line[i + 1]
        BY LineLemma
      <4> HIDE DEF args
      <4>4. args[1] = line[1 + 1] /\ Len(args) = 1 BY <3>1, <4>3
      <4> QED BY <4>1, <4>2, <4>4
    <3> HIDE DEF args, arg1
    <3>3. line[2].size \in Nat BY <3>2 DEF Words
    <3>4. arg1 = line[2] BY <3>1, <3>2, <3>3, CutLemma
    <3>5. args = <<line[2]>> BY <1>1, <3>2
    <3>6. Length(args) = line[2].size /\ DOMAIN args = {1} BY <3>2, <3>5, LengthOne
    <3>7. ~HasCRLF(args) /\ ~HasChaining(args)
      BY <3>1, <3>2, <3>4, <3>6 DEF HasCRLF, HasChaining
    <3>8. Sanitized(line[2]) BY <3>1, <3>4 DEF Sanitized
    <3>9. Cap(line) = 512 BY <2>3, <2>5 DEF Am
    <3> QED BY <1>5, <2>2, <3>1, <3>3, <3>4, <3>6, <3>7, <3>8, <3>9
  <2>6. CASE Am(c, "amlogin", 7)
    <3>1. ~HasCRLF(args) /\ ~(Length(args) > 128) BY <1>2, <2>1, <2>6 DEF JAPlusTest, Am
    <3>2. ~ExecSink(line) /\ Password(line) /\ Cap(line) = 128
      BY <2>3, <2>6, PolicyWords DEF Am
    <3> QED BY <1>1, <1>5, <2>2, <3>1, <3>2
  <2>7. CASE ~(\/ Am(c, "amsay", 5) \/ Am(c, "ampsay", 6) \/ Am(c, "amvstr", 6)
               \/ Am(c, "ammap", 5) \/ Am(c, "amlogin", 7))
    <3>1. ~HasCRLF(args) /\ ~HasChaining(args) /\ ~(Length(args) > 512)
      <4>1. \/ ~HasCRLF(args) /\ ~HasChaining(args) /\ ~(Length(args) > 512)
            \/ ~HasCRLF(args) /\ ~HasChaining(args) /\ ~(Length(args) > 256)
        BY <1>2, <2>1, <2>7 DEF JAPlusTest
      <4> QED BY <1>1, <4>1
    <3>2. ~ExecSink(line) /\ Cap(line) = 512 BY <2>3, <2>7, PolicyWords
    <3> QED BY <1>1, <1>5, <2>2, <3>1, <3>2
  <2> QED BY <2>4, <2>5, <2>6, <2>7
<1>7. CASE ~(c.lit \in JAPlus /\ c.size >= 2)
  <2>1. ~VanillaBlock(line) BY <1>3, <1>7 DEF ShouldBlockClientCommand
  <2>2. /\ ~CrashesGame(line, {"ragnos"}) /\ ~HasCRLF(args)
        /\ IF Among(c, {"say", "say_team", "tell"})
           THEN ~(Length(args) > 256) ELSE ~HasChaining(args)
    BY <1>2, <2>1, VanillaLemma
  <2>3. \A lit \in JAPlus, n \in 2 .. 9 : ~Am(c, lit, n) BY <1>1, <1>7 DEF Am
  <2>4. ~ExecSink(line) /\ ~Password(line)
        /\ (Chat(line) <=> Among(c, {"say", "say_team", "tell"}))
    BY <2>3, PolicyWords DEF JAPlus
  <2>5. Cap(line) = IF Chat(line) THEN 256 ELSE 1023 BY <1>4, <1>7, <2>4 DEF Cap
  <2> QED BY <1>1, <1>5, <2>2, <2>4, <2>5
<1> QED BY <1>6, <1>7

(* What nobody could object to has passed. *)
LEMMA PolicyComplete ==
    ASSUME NEW line, IsLine(line), Legitimate(line)
    PROVE  ~ShouldBlockClientCommand(line)
<1> DEFINE c == line[1]
           args == Tail(line)
           arg1 == Argv(line, 1, 127)
           Fit(w) == w.size \in 1 .. 64 /\ w.of \in {"letters", "digits"}
<1>1. /\ c \in Words /\ c.size \in Nat /\ args \in Seq(Words) /\ Length(args) \in Nat
      /\ Len(line) \in Nat \ {0}
  BY LineLemma, LengthType DEF Words
<1>2. DOMAIN line = 1 .. Len(line) BY LenProperties DEF IsLine
<1>3. \A i \in 1 .. Len(line) : Fit(line[i]) /\ line[i].lit # "saber_droid"
  BY <1>2 DEF Legitimate
<1>4. Args(line) = args
  <2>1. ASSUME NEW i \in DOMAIN line PROVE line[i].size <= 255
    <3>1. line[i].size \in 1 .. 64 BY <1>2, <1>3
    <3> QED BY <3>1
  <2> QED BY <2>1, ArgsLemma
<1>5. Length(args) <= 128 /\ ~CheatCommand(line) /\ ~CrashesGame(line, {"ragnos"})
  BY DEF Legitimate, Permitted, Rest
<1>6. \A i \in 1 .. (Len(line) - 1) : Fit(args[i])
  <2>1. \A i \in 1 .. (Len(line) - 1) : args[i] = line[i + 1] BY LineLemma
  <2> HIDE DEF args, Fit
  <2> QED BY <1>1, <1>3, <2>1
<1>7. DOMAIN args = 1 .. (Len(line) - 1) BY <1>1, LineLemma, LenProperties
<1>8. ~HasCRLF(args) /\ ~HasChaining(args)
  <2> HIDE DEF args
  <2> QED BY <1>6, <1>7 DEF HasCRLF, HasChaining
<1>9. StrCasePrefix(Argv(line, 0, 127), "am", 2) <=> c.lit \in JAPlus /\ c.size >= 2
  BY AmLemma
<1>10. CASE c.lit \in JAPlus /\ c.size >= 2
  <2>1. "am" \in Stems(c.lit) BY <1>10, StemsLemma
  <2>2. Len(line) = 2 /\ IsNumberChars(args) BY <2>1 DEF Legitimate, Rest
  <2>3. Fit(arg1)
    <3>1. Word(line, 1) = line[2] BY <2>2 DEF Word
    <3>2. arg1 = Cut(Word(line, 1), 127) /\ Word(line, 1) \in Words BY LineLemma
    <3>3. Fit(line[2]) BY <1>3, <2>2
    <3>4. arg1 = line[2] BY <3>1, <3>2, <3>3, CutLemma
    <3> QED BY <3>3, <3>4
  <2>4. ~HasCRLF(<<arg1>>) /\ ~HasChaining(<<arg1>>)
    <3> HIDE DEF arg1
    <3> QED BY <2>3 DEF HasCRLF, HasChaining
  <2>5. IsTokenChars(arg1) /\ IsMapChars(arg1) /\ IsPathChars(arg1) /\ arg1.size \in 1 .. 64
    BY <2>3 DEF IsTokenChars, IsMapChars, IsPathChars
  <2> HIDE DEF args, arg1, Fit
  <2>6. ~(Length(args) > 128) /\ ~(Length(args) > 256) /\ ~(Length(args) > 512) /\ arg1.size # 0
    <3>1. Length(args) \in Nat /\ Length(args) <= 128 BY <1>1, <1>5
    <3>2. arg1.size # 0 BY <2>5
    <3> QED BY <3>1, <3>2
  <2>7. ~JAPlusTest(line)
    BY <1>4, <1>8, <2>2, <2>4, <2>5, <2>6 DEF JAPlusTest, args, arg1
  <2> QED BY <1>9, <1>10, <2>7, JAPlusLemma DEF ShouldBlockClientCommand
<1>11. CASE ~(c.lit \in JAPlus /\ c.size >= 2)
  <2>1. ~StrCaseEq(Argv(line, 2, 127), "saber_droid", 10)
    <3>1. Word(line, 2).lit # "saber_droid"
      <4>1. CASE 2 < Len(line)
        <5>1. 3 \in 1 .. Len(line) /\ Word(line, 2) = line[3] BY <1>1, <4>1 DEF Word
        <5> QED BY <1>3, <5>1
      <4>2. CASE ~(2 < Len(line)) BY <4>2, EmptyWord DEF Word
      <4> QED BY <4>1, <4>2
    <3>2. Argv(line, 2, 127) = Cut(Word(line, 2), 127) /\ Word(line, 2) \in Words
      BY LineLemma
    <3>3. StrCaseEq(Argv(line, 2, 127), "saber_droid", 10)
            => "saber_droid" \in Stems(Word(line, 2).lit)
      BY <3>2, EqLemma
    <3> QED BY <3>1, <3>3, StemsLemma
  <2>2. ~(Length(args) > 256) BY <1>1, <1>5
  <2>3. ~VanillaBlock(line) BY <1>4, <1>5, <1>8, <2>1, <2>2, VanillaLemma
  <2> QED BY <1>9, <1>11, <2>3 DEF ShouldBlockClientCommand
<1> QED BY <1>10, <1>11

-----------------------------------------------------------------------------
(* What has just been judged: the record in last is what a judgement left. *)
JudgedInv ==
    /\ last.call = "usercmd" =>
         /\ last.in \in Given[scene].usercmds
         /\ last.out = [sel |-> Selected(last.in.sel), roll |-> 0]
    /\ last.call = "token" =>
         /\ last.in \in Given[scene].tokens
         /\ last.out = TokenCut(last.in)
    /\ last.call = "command" =>
         /\ last.line \in Given[scene].lines
         /\ last.passed <=> ~ShouldBlockClientCommand(last.line)

LEMMA JudgedNext == JudgedInv /\ [Next]_vars => JudgedInv'
<1> SUFFICES ASSUME JudgedInv, [Next]_vars PROVE JudgedInv' OBVIOUS
<1>1. ASSUME last' = Nobody PROVE JudgedInv' BY <1>1 DEF JudgedInv, Nobody
<1>2. ASSUME last' = last, scene' = scene PROVE JudgedInv' BY <1>2 DEF JudgedInv
<1>3. CASE DllEntry \/ LibAppears BY <1>2, <1>3 DEF DllEntry, LibAppears
<1>4. CASE Frame \/ Connect \/ Disconnect \/ GameDrops
  BY <1>1, <1>4 DEF Frame, Connect, Disconnect, GameDrops
<1>5. ASSUME NEW n, Begin(n) PROVE JudgedInv' BY <1>1, <1>5 DEF Begin
<1>6. CASE UserinfoRefused \/ UserinfoChanged \/ SendsAgain
  BY <1>1, <1>6 DEF UserinfoRefused, UserinfoChanged, SendsAgain
<1>7. ASSUME NEW line \in Unjudged("lines"), ClientCommand(line) \/ CheaterDropped(line)
      PROVE  JudgedInv'
  <2>1. last' = Judged(line) /\ scene' = scene BY <1>7 DEF ClientCommand, CheaterDropped, VmMain
  <2>2. line \in Given[scene].lines BY DEF Unjudged, Only
  <2> QED BY <2>1, <2>2 DEF JudgedInv, Judged
<1>8. ASSUME NEW cmd \in Unjudged("usercmds"), GetUsercmd(cmd) PROVE JudgedInv'
  <2>1. cmd \in Given[scene].usercmds BY DEF Unjudged, Only
  <2> QED BY <1>8, <2>1 DEF GetUsercmd, Filters, JudgedInv
<1>9. ASSUME NEW t \in Unjudged("tokens"), GetEntityToken(t) PROVE JudgedInv'
  <2>1. t \in Given[scene].tokens BY DEF Unjudged, Only
  <2> QED BY <1>9, <2>1 DEF GetEntityToken, Filters, JudgedInv
<1>10. ASSUME NEW n, SendServerCommand(n) \/ SiegeFind(n) PROVE JudgedInv'
  BY <1>10 DEF SendServerCommand, SiegeFind, Filters, JudgedInv
<1>11. ASSUME NEW cs, SetConfigstring(cs) PROVE JudgedInv'
  BY <1>11 DEF SetConfigstring, Filters, JudgedInv
<1>12. CASE EngineOwn BY <1>2, <1>12 DEF EngineOwn
<1>13. CASE UNCHANGED vars BY <1>2, <1>13 DEF vars
<1> QED
  BY <1>3, <1>4, <1>5, <1>6, <1>7, <1>8, <1>9, <1>10, <1>11, <1>12, <1>13 DEF Next

LEMMA JudgedInvariance == Spec => []JudgedInv
<1>1. Init => JudgedInv BY DEF Init, JudgedInv, Nobody
<1> QED BY <1>1, JudgedNext, PTL DEF Spec

(* What the game gets is safe, and what was safe it gets as it came.       *)
THEOREM GameIsShielded == Spec => []GameShielded
<1>1. CallInv /\ JudgedInv => GameShielded
  <2> SUFFICES ASSUME CallInv, JudgedInv PROVE GameShielded OBVIOUS
  <2>1. scene \in Scenes BY DEF CallInv
  <2>2. ASSUME last.call = "usercmd"
        PROVE  /\ last.out.sel \in SafePowers /\ last.out.roll = 0
               /\ last.in.sel \in SafePowers => last.out.sel = last.in.sel
    <3>1. last.in \in Given[scene].usercmds /\ last.out.sel = Selected(last.in.sel) /\ last.out.roll = 0
      BY <2>2 DEF JudgedInv
    <3>2. last.in.sel \in 0 .. 255 BY <2>1, <3>1, BoundaryAssumption
    <3> QED BY <3>1, <3>2 DEF Selected, SafePowers
  <2>3. ASSUME last.call = "token", last.in.returned, last.in.size > 0
        PROVE  /\ last.out < last.in.size /\ last.out <= 1023
               /\ last.in.length < last.in.size /\ last.in.length <= 1023 =>
                    last.out = last.in.length
    <3>1. last.in \in Given[scene].tokens /\ last.out = TokenCut(last.in)
      BY <2>3 DEF JudgedInv
    <3>2. last.in.size \in Int /\ last.in.length \in Nat BY <2>1, <3>1, BoundaryAssumption
    <3> QED BY <2>3, <3>1, <3>2 DEF TokenCut, Least
  <2> QED BY <2>2, <2>3 DEF GameShielded
<1> QED BY <1>1, CallInvariance, JudgedInvariance, PTL

(* The policy on client commands is kept, for every line that the engine   *)
(* can hand over.                                                          *)
THEOREM PolicyIsKept == Spec => []PolicyKept
<1>1. CallInv /\ JudgedInv => PolicyKept
  <2> SUFFICES ASSUME CallInv, JudgedInv, last.call = "command"
               PROVE  /\ last.passed /\ SeenWhole(last.line) => Permitted(last.line)
                      /\ Legitimate(last.line) => last.passed
    BY DEF PolicyKept
  <2>1. scene \in Scenes /\ last.line \in Given[scene].lines BY DEF CallInv, JudgedInv
  <2>2. IsLine(last.line) /\ Length(Tail(last.line)) <= 1023 BY <2>1, BoundaryAssumption
  <2>3. last.passed <=> ~ShouldBlockClientCommand(last.line) BY DEF JudgedInv
  <2> QED BY <2>2, <2>3, PolicySound, PolicyComplete
<1> QED BY <1>1, CallInvariance, JudgedInvariance, PTL

-----------------------------------------------------------------------------
(* The types: of the userinfo, of the reports, of the calls. *)
THEOREM BoundaryTypes == Spec => []TypeOK
<1>1. InfoInv /\ ReportInv /\ EntryInv /\ CallInv => TypeOK
  <2> SUFFICES ASSUME InfoInv, ReportInv, EntryInv, CallInv PROVE TypeOK OBVIOUS
  <2>1. patches \in 0 .. 1
    <3>1. real \in BOOLEAN BY DEF EntryInv
    <3> QED BY <3>1 DEF EntryInv
  <2> QED BY <2>1 DEF TypeOK, InfoInv, ReportInv, EntryInv, CallInv, Views
<1>2. Spec => []EntryInv BY EntryInit, EntryNext, PTL DEF Spec
<1>3. Spec => []ReportInv BY ReportInit, ReportNext, PTL DEF Spec
<1> QED BY <1>1, <1>2, <1>3, InfoInvariance, CallInvariance, PTL
=============================================================================
