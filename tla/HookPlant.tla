----------------------------- MODULE HookPlant -----------------------------
(***************************************************************************)
(* InstallPatches of src/proxy/patch.c: planting the four inline hooks     *)
(* when the real game module has been loaded, and RemoveHooks, which takes *)
(* them out again.  It all runs on the engine's main thread inside         *)
(* dllEntry, so planting one hook is one action.                           *)
(*                                                                         *)
(* Code bytes are abstracted to what they do: a site runs its own code, or *)
(* jumps somewhere.                                                        *)
(***************************************************************************)
EXTENDS Int32, Sequences, FiniteSets

CONSTANTS
    PrefixLen,   \* prefix_len of every site, the bytes a hook overwrites
    MaxPlanted,  \* MAX_PLANTED, entries of the inventory
    SavedBytes,  \* 8, bytes an inventory entry can hold
    SiteAddr,    \* address of every site
    DetourAddr   \* address of every site's detour, in our library

(* The order in which InstallPatches plants. *)
Plan == <<"BG_SiegeFindClassByName", "SV_ConnectionlessPacket",
          "SV_DoneDownload_f", "SVC_RemoteCommand">>

Sites == {Plan[k] : k \in DOMAIN Plan}

ASSUME HookAssumption ==
    /\ PrefixLen \in [Sites -> 1 .. 64]
    /\ MaxPlanted \in Nat \ {0} /\ SavedBytes \in Nat \ {0}
    /\ SiteAddr \in [Sites -> CInt] /\ DetourAddr \in [Sites -> CInt]

VARIABLES
    env,      \* what was loaded and how it was started
    phase,    \* how far InstallPatches has come
    at,       \* the position in Plan to plant next
    code,     \* what runs at every site
    tramp,    \* g_tramp_*: the sites' trampolines
    planted,  \* g_planted: the inventory of saved bytes
    hook_try, \* g_hook_try
    hook_ok,  \* g_hook_ok
    log       \* the startup lines about hooks

vars == <<env, phase, at, code, tramp, planted, hook_try, hook_ok, log>>

Own == [kind |-> "own", to |-> 0]
Jump == [kind : {"rel32", "abs"}, to : CInt]
Line == {"SKIPPED", "length mismatch", "hooked", "not armed"}

(* base: dladdr found the module.  fits: the first bytes, and the anchor   *)
(* of an engine site, are those recorded.  aligned: HookLenOk.  room: mmap *)
(* and mprotect succeed for the site.                                      *)
Environments ==
    [base : BOOLEAN, noHooks : BOOLEAN, noOob : BOOLEAN,
     fits : SUBSET Sites, aligned : SUBSET Sites, room : SUBSET Sites]

TypeOK ==
    /\ env \in Environments
    /\ phase \in {"start", "planting", "summary", "done", "removed"}
    /\ at \in 1 .. (Len(Plan) + 1)
    /\ code \in [Sites -> {Own} \cup Jump]
    /\ tramp \in [Sites -> {"none"} \cup Sites]
    /\ planted \in Seq([site : Sites, saved : {Own} \cup Jump])
    /\ hook_try \in 0 .. Len(Plan) /\ hook_ok \in 0 .. hook_try
    /\ log \subseteq Sites \X Line

Init ==
    /\ env \in Environments
    /\ phase = "start" /\ at = 1
    /\ code = [s \in Sites |-> Own]
    /\ tramp = [s \in Sites |-> "none"]
    /\ planted = <<>>
    /\ hook_try = 0 /\ hook_ok = 0
    /\ log = {}

-----------------------------------------------------------------------------
(* Inline hooks are off when the module has no base or by environment.     *)
Begin ==
    /\ phase = "start"
    /\ phase' = IF env.base /\ ~env.noHooks THEN "planting" ELSE "done"
    /\ UNCHANGED <<env, at, code, tramp, planted, hook_try, hook_ok, log>>

(* HookAuto: pointers have the width of an int, so the distance it computes *)
(* has been truncated to 32 bits before it asks whether it fits in 32 bits. *)
Rel(s) == Wrap(DetourAddr[s] - (SiteAddr[s] + 5))
Kind(s) == IF PrefixLen[s] >= 5 /\ Rel(s) = Wrap(Rel(s)) THEN "rel32" ELSE "abs"
Plantable(s) == Kind(s) = "rel32" \/ PrefixLen[s] >= 6

(* Wrong: the five bytes of the jump itself are forgotten. *)
TargetShort(s) ==
    IF Kind(s) = "rel32" THEN Wrap(SiteAddr[s] + Rel(s)) ELSE DetourAddr[s]

(* Where the planted jump lands: a rel32 jump adds modulo 2^32. *)
Target(s) ==
    IF Kind(s) = "rel32" THEN Wrap(SiteAddr[s] + 5 + Rel(s)) ELSE DetourAddr[s]

Planted(s) == [kind |-> Kind(s), to |-> Target(s)]

(* Wrong: the bytes are saved after the jump has replaced them. *)
TrackLate(s) ==
    IF Len(planted) < MaxPlanted /\ PrefixLen[s] <= SavedBytes
    THEN Append(planted, [site |-> s, saved |-> Planted(s)])
    ELSE planted

(* TrackHook saves the bytes about to be overwritten, if an entry can. *)
Track(s) ==
    IF Len(planted) < MaxPlanted /\ PrefixLen[s] <= SavedBytes
    THEN Append(planted, [site |-> s, saved |-> code[s]])
    ELSE planted

(* HookArmed: reads back the jump of the first entry of that name. *)
Armed(s, inventory, memory) ==
    /\ \E k \in DOMAIN inventory : inventory[k].site = s
    /\ memory[s] # Own /\ memory[s].to = DetourAddr[s]

Site == Plan[at]

AtSite == phase = "planting" /\ at \in DOMAIN Plan

(* JAPLUS_NO_OOB leaves out the connectionless hook. *)
PassOver ==
    /\ AtSite
    /\ Site = "SV_ConnectionlessPacket" /\ env.noOob
    /\ at' = at + 1
    /\ UNCHANGED <<env, phase, code, tramp, planted, hook_try, hook_ok, log>>

Wanted == AtSite /\ ~(Site = "SV_ConnectionlessPacket" /\ env.noOob)

Skip ==
    /\ Wanted
    /\ Site \notin env.fits
    /\ log' = log \cup {<<Site, "SKIPPED">>}
    /\ at' = at + 1
    /\ UNCHANGED <<env, phase, code, tramp, planted, hook_try, hook_ok>>

(* Wrong: a site that was refused is counted as hooked. *)
MismatchCounted ==
    /\ Wanted
    /\ Site \in env.fits /\ Site \notin env.aligned
    /\ hook_ok' = hook_ok + 1
    /\ log' = log \cup {<<Site, "length mismatch">>}
    /\ at' = at + 1
    /\ UNCHANGED <<env, phase, code, tramp, planted, hook_try>>

Mismatch ==
    /\ Wanted
    /\ Site \in env.fits /\ Site \notin env.aligned
    /\ hook_try' = hook_try + 1
    /\ log' = log \cup {<<Site, "length mismatch">>}
    /\ at' = at + 1
    /\ UNCHANGED <<env, phase, code, tramp, planted, hook_ok>>

(* Wrong: an entry in the inventory is taken for a planted hook. *)
ConfirmedByEntry == \E k \in DOMAIN planted' : planted'[k].site = Site

(* HookAuto succeeded, and HookArmed found its jump. *)
Confirmed == code'[Site] # code[Site] /\ Armed(Site, planted', code')

PlantHook ==
    /\ Wanted
    /\ Site \in env.fits /\ Site \in env.aligned
    /\ hook_try' = hook_try + 1
    /\ planted' = Track(Site)
    /\ IF Plantable(Site) /\ Site \in env.room
       THEN /\ code' = [code EXCEPT ![Site] = Planted(Site)]
            /\ tramp' = [tramp EXCEPT ![Site] = Site]
       ELSE UNCHANGED <<code, tramp>>
    /\ IF Confirmed
       THEN hook_ok' = hook_ok + 1 /\ log' = log \cup {<<Site, "hooked">>}
       ELSE UNCHANGED hook_ok /\ log' = log \cup {<<Site, "not armed">>}
    /\ at' = at + 1
    /\ UNCHANGED <<env, phase>>

Summary ==
    /\ phase = "planting" /\ at > Len(Plan)
    /\ phase' = "summary"
    /\ UNCHANGED <<env, at, code, tramp, planted, hook_try, hook_ok, log>>

(* RemoveHooks: nothing calls it yet; it is kept for hot reloading. *)
RemoveHooks ==
    /\ phase \in {"summary", "done"}
    /\ code' = [s \in Sites |->
                  IF \E k \in DOMAIN planted : planted[k].site = s
                  THEN planted[CHOOSE k \in DOMAIN planted : planted[k].site = s].saved
                  ELSE code[s]]
    /\ phase' = "removed"
    /\ UNCHANGED <<env, at, tramp, planted, hook_try, hook_ok, log>>

Next == Begin \/ PassOver \/ Skip \/ Mismatch \/ PlantHook \/ Summary \/ RemoveHooks

Spec == Init /\ [][Next]_vars

-----------------------------------------------------------------------------
(* patch.h: "a wrong-build .so can never be patched blindly".  Whatever    *)
(* was loaded, a site that no longer runs its own code had the recorded    *)
(* bytes, whole instructions under the hook, and a trampoline that resumes *)
(* its own code; and its jump lands in its own detour, also when the       *)
(* distance does not fit in 32 bits.                                       *)
HooksSound ==
    \A s \in Sites : code[s] # Own =>
        /\ s \in env.fits \cap env.aligned
        /\ tramp[s] = s
        /\ code[s].to = DetourAddr[s]

(* The comment over the inventory: "hooked" is only printed after the jump *)
(* is confirmed, and hooks_armed counts nothing else.                      *)
HookedIsTrue ==
    phase # "removed" =>
        /\ \A s \in Sites : <<s, "hooked">> \in log => code[s] # Own
        /\ hook_ok <= Cardinality({s \in Sites : code[s] # Own})

(* RemoveHooks gives every site it has an entry for its own code back,     *)
(* whichever of the hooks could be planted.                                *)
TrackedRestored ==
    phase = "removed" =>
        \A k \in DOMAIN planted : code[planted[k].site] = Own

(* README, "Check it's working": on the supported build, with nothing      *)
(* switched off, the startup lines report all four hooks armed.            *)
Supported ==
    /\ env.base /\ ~env.noHooks /\ ~env.noOob
    /\ env.fits = Sites /\ env.aligned = Sites /\ env.room = Sites

AllArmed == phase = "summary" /\ Supported => hook_try = 4 /\ hook_ok = 4
=============================================================================
