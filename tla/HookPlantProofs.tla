-------------------------- MODULE HookPlantProofs --------------------------
(***************************************************************************)
(* Proofs about HookPlant, for every address of the four sites and their   *)
(* detours, every width of an int, every length of a prefix and every size *)
(* of the inventory.                                                       *)
(***************************************************************************)
EXTENDS HookPlant, OperatorProofs, FiniteSetTheorems

-----------------------------------------------------------------------------
(* The plan names four different sites. *)
LEMMA PlanFacts ==
    /\ Len(Plan) = 4 /\ DOMAIN Plan = 1 .. 4
    /\ \A p \in 1 .. 4 : Plan[p] \in Sites
    /\ \A p, q \in 1 .. 4 : Plan[p] = Plan[q] => p = q
<1>1. Len(Plan) = 4 /\ DOMAIN Plan = 1 .. 4 BY DEF Plan
<1>2. \A p \in 1 .. 4 : Plan[p] \in Sites BY <1>1 DEF Sites
<1>3. \A p, q \in 1 .. 4 : Plan[p] = Plan[q] => p = q
  <2>1. /\ Plan[1] = "BG_SiegeFindClassByName" /\ Plan[2] = "SV_ConnectionlessPacket"
        /\ Plan[3] = "SV_DoneDownload_f" /\ Plan[4] = "SVC_RemoteCommand"
    BY DEF Plan
  <2>2. \A p \in 1 .. 4 : p = 1 \/ p = 2 \/ p = 3 \/ p = 4 OBVIOUS
  <2> QED BY <2>1, <2>2
<1> QED BY <1>1, <1>2, <1>3

(* There are finitely many sites, and so finitely many that are hooked.    *)
LEMMA SitesFinite == IsFiniteSet(Sites)
<1>1. Sites = {Plan[1], Plan[2], Plan[3], Plan[4]}
  BY PlanFacts DEF Sites
<1>2. IsFiniteSet({Plan[1], Plan[2], Plan[3], Plan[4]})
  <2>1. IsFiniteSet({}) BY FS_EmptySet
  <2>2. IsFiniteSet({} \cup {Plan[1]}) BY <2>1, FS_AddElement
  <2>3. IsFiniteSet(({} \cup {Plan[1]}) \cup {Plan[2]}) BY <2>2, FS_AddElement
  <2>4. IsFiniteSet((({} \cup {Plan[1]}) \cup {Plan[2]}) \cup {Plan[3]})
    BY <2>3, FS_AddElement
  <2>5. IsFiniteSet(((({} \cup {Plan[1]}) \cup {Plan[2]}) \cup {Plan[3]}) \cup {Plan[4]})
    BY <2>4, FS_AddElement
  <2>6. ((({} \cup {Plan[1]}) \cup {Plan[2]}) \cup {Plan[3]}) \cup {Plan[4]}
          = {Plan[1], Plan[2], Plan[3], Plan[4]}
    OBVIOUS
  <2> QED BY <2>5, <2>6
<1> QED BY <1>1, <1>2

(* A jump lands in its detour, however far away that is: the distance has  *)
(* lost its high bits, and the addition of the jump loses them again.      *)
LEMMA TargetIsDetour ==
    ASSUME NEW s \in Sites
    PROVE  /\ Target(s) = DetourAddr[s] /\ DetourAddr[s] \in CInt
           /\ Planted(s) \in Jump /\ Planted(s) # Own
<1> DEFINE a == SiteAddr[s] + 5
           d == DetourAddr[s]
<1>1. SiteAddr[s] \in CInt /\ d \in CInt BY HookAssumption
<1>2. a \in Int /\ d \in Int /\ d - a \in Int BY <1>1, HalfAssumption DEF CInt
<1>3. Wrap(a + Rel(s)) = d
  <2>1. PICK k \in Int : Wrap(d - a) = (d - a) - (2 * Half) * k
    BY <1>2, WrapCongruent
  <2>2. Rel(s) = Wrap(d - a) BY DEF Rel
  <2> HIDE DEF a, d
  <2>3. (2 * Half) * k \in Int BY HalfAssumption
  <2>4. a + Rel(s) = d - (2 * Half) * k BY <2>1, <2>2, <2>3, <1>2
  <2>5. Wrap(d - (2 * Half) * k) = Wrap(d) BY <1>2, WrapPeriodic
  <2>6. Wrap(d) = d BY <1>1, WrapId
  <2> QED BY <2>4, <2>5, <2>6
<1>4. Target(s) = d BY <1>3 DEF Target
<1>5. Kind(s) \in {"rel32", "abs"} BY DEF Kind
<1>6. Planted(s) = [kind |-> Kind(s), to |-> d] BY <1>4 DEF Planted
<1> QED BY <1>1, <1>4, <1>5, <1>6 DEF Jump, Own

-----------------------------------------------------------------------------
(* One more line about a site is a line about a site, and says of no other *)
(* that it is hooked.                                                      *)
LEMMA LoggedLine ==
    ASSUME NEW L, L \subseteq Sites \X Line, NEW s \in Sites, NEW w \in Line
    PROVE  /\ L \cup {<<s, w>>} \subseteq Sites \X Line
           /\ \A z \in Sites : <<z, "hooked">> \in L \cup {<<s, w>>} =>
                 (z = s /\ w = "hooked") \/ <<z, "hooked">> \in L
<1>1. <<s, w>> \in Sites \X Line OBVIOUS
<1>2. \A z : <<z, "hooked">> = <<s, w>> => z = s /\ w = "hooked" OBVIOUS
<1> QED BY <1>1, <1>2

(* The inductive invariant.  Nothing has been done yet to the sites from   *)
(* at on, so every entry of the inventory has saved a site's own code.     *)
Untouched ==
    phase # "removed" => \A p \in 1 .. 4 : p >= at => code[Plan[p]] = Own

SavedOwn == \A k \in DOMAIN planted : planted[k].saved = Own

IInv ==
    /\ TypeOK /\ hook_try < at
    /\ Untouched /\ SavedOwn
    /\ HooksSound /\ HookedIsTrue /\ TrackedRestored

(* It holds before anything has been planted. *)
LEMMA InitInv == Init => IInv
<1> SUFFICES ASSUME Init PROVE IInv OBVIOUS
<1> USE PlanFacts DEF Init
<1>1. TypeOK /\ hook_try < at BY DEF TypeOK, Own
<1>2. Untouched /\ SavedOwn BY DEF Untouched, SavedOwn
<1>3. HooksSound BY DEF HooksSound
<1>4. HookedIsTrue
  <2>1. {s \in Sites : code[s] # Own} = {} OBVIOUS
  <2>2. Cardinality({}) = 0 BY FS_EmptySet
  <2>3. \A s \in Sites : <<s, "hooked">> \notin log OBVIOUS
  <2>4. hook_ok <= Cardinality({s \in Sites : code[s] # Own})
    <3>1. hook_ok <= Cardinality({}) BY <2>2
    <3> QED BY <2>1, <3>1
  <2> QED BY <2>3, <2>4 DEF HookedIsTrue
<1>5. TrackedRestored BY DEF TrackedRestored
<1> QED BY <1>1, <1>2, <1>3, <1>4, <1>5 DEF IInv

(* Planting a hook keeps it. *)
LEMMA PlantHookInv ==
    ASSUME IInv, PlantHook
    PROVE  IInv'
<1> DEFINE hooked == {s \in Sites : code[s] # Own}
<1> USE PlanFacts
<1>1. /\ at \in 1 .. 4 /\ at' = at + 1 /\ Site \in Sites /\ Site = Plan[at]
      /\ phase = "planting" /\ phase' = phase /\ env' = env
      /\ hook_try' = hook_try + 1 /\ planted' = Track(Site)
      /\ Site \in env.fits /\ Site \in env.aligned
  BY DEF PlantHook, Wanted, AtSite, Site
<1>2. TypeOK /\ hook_try < at BY DEF IInv
<1>3. code[Site] = Own BY <1>1 DEF IInv, Untouched
<1>4. Planted(Site) \in Jump /\ Planted(Site) # Own
      /\ Planted(Site).to = DetourAddr[Site]
  BY <1>1, TargetIsDetour DEF Planted
<1>5. \/ /\ code' = [code EXCEPT ![Site] = Planted(Site)]
         /\ tramp' = [tramp EXCEPT ![Site] = Site]
      \/ code' = code /\ tramp' = tramp
  BY DEF PlantHook
<1>6. \/ /\ code' = [code EXCEPT ![Site] = Planted(Site)]
         /\ hook_ok' = hook_ok + 1 /\ log' = log \cup {<<Site, "hooked">>}
      \/ hook_ok' = hook_ok /\ log' = log \cup {<<Site, "not armed">>}
  <2>1. Confirmed => code' # code BY DEF Confirmed
  <2> QED BY <1>5, <2>1 DEF PlantHook
<1>7. /\ code \in [Sites -> {Own} \cup Jump] /\ tramp \in [Sites -> {"none"} \cup Sites]
      /\ planted \in Seq([site : Sites, saved : {Own} \cup Jump])
      /\ hook_try \in Nat /\ hook_ok \in 0 .. hook_try /\ log \subseteq Sites \X Line
  BY <1>2 DEF TypeOK
<1>8. TypeOK' /\ (hook_try < at)'
  <2>1. code' \in [Sites -> {Own} \cup Jump] /\ tramp' \in [Sites -> {"none"} \cup Sites]
    BY <1>1, <1>4, <1>5, <1>7
  <2>2. planted' \in Seq([site : Sites, saved : {Own} \cup Jump])
    <3> DEFINE Entry == [site : Sites, saved : {Own} \cup Jump]
               e == [site |-> Site, saved |-> code[Site]]
    <3>1. e \in Entry BY <1>1, <1>3
    <3>2. planted \in Seq(Entry) BY <1>7
    <3>3. planted' = planted \/ planted' = Append(planted, e) BY <1>1 DEF Track
    <3> HIDE DEF Entry, e
    <3>4. planted' \in Seq(Entry) BY <3>1, <3>2, <3>3
    <3> QED BY <3>4 DEF Entry
  <2>3. hook_try' \in 0 .. 4 /\ hook_ok' \in 0 .. hook_try' /\ hook_try' < at'
        /\ at' \in 1 .. 5
    <3>1. at \in 1 .. 4 /\ at' = at + 1 /\ hook_try' = hook_try + 1 BY <1>1
    <3>2. hook_try \in Nat /\ hook_try < at /\ hook_ok \in 0 .. hook_try BY <1>2, <1>7
    <3>3. hook_ok' = hook_ok \/ hook_ok' = hook_ok + 1 BY <1>6
    <3> QED BY <3>1, <3>2, <3>3
  <2>4. log' \subseteq Sites \X Line BY <1>1, <1>6, <1>7, LoggedLine DEF Line
  <2>5. env' \in Environments /\ phase' = "planting" BY <1>1, <1>2 DEF TypeOK
  <2> QED BY <2>1, <2>2, <2>3, <2>4, <2>5 DEF TypeOK
<1>9. Untouched'
  <2>1. ASSUME NEW p \in 1 .. 4, p >= at + 1 PROVE code'[Plan[p]] = Own
    <3>1. Plan[p] # Site /\ Plan[p] \in Sites BY <1>1, <2>1
    <3>2. code[Plan[p]] = Own BY <1>1, <2>1 DEF IInv, Untouched
    <3> QED BY <3>1, <3>2, <1>5, <1>7
  <2> QED BY <1>1, <2>1 DEF Untouched
<1>10. SavedOwn'
  <2>1. \A k \in DOMAIN planted : planted[k].saved = Own BY DEF IInv, SavedOwn
  <2>2. CASE planted' = planted BY <2>1, <2>2 DEF SavedOwn
  <2>3. CASE planted' = Append(planted, [site |-> Site, saved |-> Own])
    BY <2>1, <2>3, <1>7 DEF SavedOwn
  <2> QED BY <1>1, <1>3, <2>2, <2>3 DEF Track
<1>11. HooksSound'
  <2>1. ASSUME NEW s \in Sites, code'[s] # Own
        PROVE  /\ s \in env'.fits \cap env'.aligned /\ tramp'[s] = s
               /\ code'[s].to = DetourAddr[s]
    <3>1. CASE s = Site /\ code' = [code EXCEPT ![Site] = Planted(Site)]
      <4>1. code'[s] = Planted(Site) BY <3>1, <1>1, <1>7
      <4>2. tramp'[s] = s BY <2>1, <3>1, <1>3, <1>5, <1>7
      <4> QED BY <4>1, <4>2, <3>1, <1>1, <1>4
    <3>2. CASE s # Site \/ code' = code
      <4>1. code'[s] = code[s] /\ (tramp'[s] = tramp[s] \/ s = Site)
        BY <3>2, <1>5, <1>7
      <4>2. s # Site BY <4>1, <2>1, <1>3
      <4>3. /\ s \in env.fits \cap env.aligned /\ tramp[s] = s
            /\ code[s].to = DetourAddr[s]
        BY <4>1, <2>1 DEF IInv, HooksSound
      <4> QED BY <4>1, <4>2, <4>3, <1>1
    <3> QED BY <3>1, <3>2, <1>5
  <2> QED BY <2>1 DEF HooksSound
<1>12. HookedIsTrue'
  <2>1. /\ \A s \in Sites : <<s, "hooked">> \in log => code[s] # Own
        /\ hook_ok <= Cardinality(hooked)
    BY <1>1 DEF IInv, HookedIsTrue
  <2>2. IsFiniteSet(hooked) BY SitesFinite, FS_Subset
  <2>3. CASE code' = [code EXCEPT ![Site] = Planted(Site)]
    <3>1. {s \in Sites : code'[s] # Own} = hooked \cup {Site} /\ Site \notin hooked
      BY <2>3, <1>1, <1>3, <1>4, <1>7
    <3>2. Cardinality(hooked \cup {Site}) = Cardinality(hooked) + 1
      BY <2>2, <3>1, FS_AddElement
    <3>3. Cardinality(hooked) \in Nat BY <2>2, FS_CardinalityType
    <3>4. hook_ok' <= Cardinality({s \in Sites : code'[s] # Own})
      <4> HIDE DEF hooked
      <4>1. hook_ok' = hook_ok \/ hook_ok' = hook_ok + 1 BY <1>6
      <4>2. hook_ok \in Int BY <1>7
      <4>3. hook_ok <= Cardinality(hooked) BY <2>1
      <4>4. hook_ok' <= Cardinality(hooked \cup {Site}) BY <4>1, <4>2, <4>3, <3>2, <3>3
      <4> QED BY <4>4, <3>1
    <3>5. \A s \in Sites : <<s, "hooked">> \in log' => code'[s] # Own
      <4>1. \A s \in Sites : <<s, "hooked">> \in log' => s = Site \/ <<s, "hooked">> \in log
        <5>1. {"hooked", "not armed"} \subseteq Line BY DEF Line
        <5> QED BY <5>1, <1>1, <1>6, <1>7, LoggedLine
      <4> QED BY <4>1, <2>1, <2>3, <1>1, <1>4, <1>7
    <3> QED BY <3>4, <3>5 DEF HookedIsTrue
  <2>4. CASE code' = code /\ hook_ok' = hook_ok /\ log' = log \cup {<<Site, "not armed">>}
    BY <2>1, <2>4 DEF HookedIsTrue
  <2>5. CASE code' = code /\ code' = [code EXCEPT ![Site] = Planted(Site)]
    BY <2>5, <2>3
  <2> QED BY <2>3, <2>4, <2>5, <1>5, <1>6
<1>13. TrackedRestored' BY <1>1 DEF TrackedRestored
<1> QED BY <1>8, <1>9, <1>10, <1>11, <1>12, <1>13 DEF IInv

(* Taking the hooks out keeps it: what was saved is a site's own code.     *)
LEMMA RemoveHooksInv ==
    ASSUME IInv, RemoveHooks
    PROVE  IInv'
<1> DEFINE Listed(s) == \E k \in DOMAIN planted : planted[k].site = s
<1>1. /\ phase' = "removed" /\ env' = env /\ at' = at /\ tramp' = tramp
      /\ planted' = planted /\ hook_try' = hook_try /\ hook_ok' = hook_ok /\ log' = log
  BY DEF RemoveHooks
<1>2. TypeOK /\ hook_try < at /\ SavedOwn /\ HooksSound BY DEF IInv
<1>3. \A s \in Sites : code'[s] = IF Listed(s) THEN Own ELSE code[s]
  <2>1. ASSUME NEW s \in Sites, Listed(s)
        PROVE  planted[CHOOSE k \in DOMAIN planted : planted[k].site = s].saved = Own
    <3>1. PICK j \in DOMAIN planted : planted[j].site = s BY <2>1
    <3>2. (CHOOSE k \in DOMAIN planted : planted[k].site = s) \in DOMAIN planted BY <3>1
    <3> QED BY <3>2, <1>2 DEF SavedOwn
  <2> QED BY <2>1 DEF RemoveHooks
<1>4. code' \in [Sites -> {Own} \cup Jump]
  <2>1. code \in [Sites -> {Own} \cup Jump] BY <1>2 DEF TypeOK
  <2>2. code' = [s \in Sites |-> code'[s]] BY DEF RemoveHooks
  <2>3. \A s \in Sites : code'[s] \in {Own} \cup Jump BY <1>3, <2>1
  <2> HIDE DEF Listed
  <2> QED BY <2>2, <2>3
<1>5. TypeOK' BY <1>1, <1>2, <1>4 DEF TypeOK
<1>6. HooksSound' BY <1>1, <1>2, <1>3 DEF HooksSound
<1>7. TrackedRestored'
  <2>1. \A k \in DOMAIN planted : planted[k].site \in Sites
    <3> DEFINE Entry == [site : Sites, saved : {Own} \cup Jump]
    <3>1. planted \in Seq(Entry) BY <1>2 DEF TypeOK
    <3>2. \A e \in Entry : e.site \in Sites OBVIOUS
    <3> HIDE DEF Entry
    <3> QED BY <3>1, <3>2
  <2> QED BY <1>1, <1>3, <2>1 DEF TrackedRestored
<1> QED BY <1>1, <1>2, <1>5, <1>6, <1>7 DEF IInv, Untouched, SavedOwn, HookedIsTrue

(* The other steps change neither the code nor the inventory. *)
LEMMA OtherInv ==
    ASSUME IInv, Begin \/ PassOver \/ Skip \/ Mismatch \/ Summary
    PROVE  IInv'
<1> USE PlanFacts
<1>1. /\ code' = code /\ tramp' = tramp /\ planted' = planted /\ env' = env
      /\ hook_ok' = hook_ok
  BY DEF Begin, PassOver, Skip, Mismatch, Summary
<1>2. /\ phase # "removed" /\ phase' # "removed"
      /\ phase' \in {"start", "planting", "summary", "done", "removed"}
      /\ at' \in {at, at + 1} /\ at' \in 1 .. 5
      /\ \/ hook_try' = hook_try
         \/ hook_try' = hook_try + 1 /\ at' = at + 1 /\ at \in 1 .. 4
  <2>1. at \in 1 .. 5 /\ 4 + 1 = 5 BY DEF IInv, TypeOK
  <2>2. CASE Begin BY <2>1, <2>2 DEF Begin
  <2>3. CASE PassOver BY <2>1, <2>3 DEF PassOver, AtSite
  <2>4. CASE Skip BY <2>1, <2>4 DEF Skip, Wanted, AtSite
  <2>5. CASE Mismatch
    <3>1. phase = "planting" /\ at \in 1 .. 4 BY <2>5 DEF Mismatch, Wanted, AtSite
    <3>2. phase' = phase /\ at' = at + 1 /\ hook_try' = hook_try + 1 BY <2>5 DEF Mismatch
    <3> QED BY <3>1, <3>2
  <2>6. CASE Summary BY <2>1, <2>6 DEF Summary
  <2> QED BY <2>2, <2>3, <2>4, <2>5, <2>6
<1>3. \/ log' = log
      \/ log' = log \cup {<<Site, "SKIPPED">>} /\ Site \in Sites
      \/ log' = log \cup {<<Site, "length mismatch">>} /\ Site \in Sites
  BY DEF Begin, PassOver, Skip, Mismatch, Summary, Wanted, AtSite, Site
<1>4. TypeOK' /\ (hook_try < at)'
  <2>1. log' \subseteq Sites \X Line
    <3>1. log \subseteq Sites \X Line BY DEF IInv, TypeOK
    <3> QED BY <1>3, <3>1, LoggedLine DEF Line
  <2>2. hook_try' \in 0 .. 4 /\ hook_ok' \in 0 .. hook_try' /\ hook_try' < at'
    BY <1>1, <1>2 DEF IInv, TypeOK
  <2> QED BY <1>1, <1>2, <2>1, <2>2 DEF IInv, TypeOK
<1>5. Untouched' BY <1>1, <1>2 DEF IInv, Untouched, TypeOK
<1>6. SavedOwn' /\ HooksSound' BY <1>1 DEF IInv, SavedOwn, HooksSound
<1>7. HookedIsTrue'
  <2>1. \A s \in Sites : <<s, "hooked">> \in log' => <<s, "hooked">> \in log
    <3>1. log \subseteq Sites \X Line BY DEF IInv, TypeOK
    <3>2. "SKIPPED" \in Line /\ "length mismatch" \in Line BY DEF Line
    <3>3. "SKIPPED" # "hooked" /\ "length mismatch" # "hooked" OBVIOUS
    <3> QED BY <1>3, <3>1, <3>2, <3>3, LoggedLine
  <2> QED BY <1>1, <1>2, <2>1 DEF IInv, HookedIsTrue
<1>8. TrackedRestored' BY <1>2 DEF TrackedRestored
<1> QED BY <1>4, <1>5, <1>6, <1>7, <1>8 DEF IInv

(* Every step keeps it. *)
LEMMA NextInv == IInv /\ [Next]_vars => IInv'
<1> SUFFICES ASSUME IInv, [Next]_vars PROVE IInv' OBVIOUS
<1>1. CASE Begin \/ PassOver \/ Skip \/ Mismatch \/ Summary BY <1>1, OtherInv
<1>2. CASE PlantHook BY <1>2, PlantHookInv
<1>3. CASE RemoveHooks BY <1>3, RemoveHooksInv
<1>4. CASE UNCHANGED vars
  BY <1>4 DEF vars, IInv, TypeOK, Untouched, SavedOwn, HooksSound, HookedIsTrue,
              TrackedRestored
<1> QED BY <1>1, <1>2, <1>3, <1>4 DEF Next

(* It holds in every state of the specification. *)
LEMMA Inductive == Spec => []IInv
<1>1. Init => IInv BY InitInv
<1>2. IInv /\ [Next]_vars => IInv' BY NextInv
<1> QED BY <1>1, <1>2, PTL DEF Spec

-----------------------------------------------------------------------------
(* InstallPatches keeps its counters and its inventory in range. *)
THEOREM TypeCorrect == Spec => []TypeOK
<1>1. IInv => TypeOK BY DEF IInv
<1> QED BY <1>1, Inductive, PTL

(* A site is never patched blindly, and a jump reaches its detour wherever *)
(* in the address space the two are.                                       *)
THEOREM NeverBlind == Spec => []HooksSound
<1>1. IInv => HooksSound BY DEF IInv
<1> QED BY <1>1, Inductive, PTL

(* What is reported as hooked is hooked, and hooks_armed counts no more.   *)
THEOREM ReportsTrue == Spec => []HookedIsTrue
<1>1. IInv => HookedIsTrue BY DEF IInv
<1> QED BY <1>1, Inductive, PTL

(* RemoveHooks gives back the own code of every site in the inventory.     *)
THEOREM Restores == Spec => []TrackedRestored
<1>1. IInv => TrackedRestored BY DEF IInv
<1> QED BY <1>1, Inductive, PTL
=============================================================================
