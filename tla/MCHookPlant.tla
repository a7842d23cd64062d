---------------------------- MODULE MCHookPlant ----------------------------
(* The hooks of the supported build, with addresses scaled down. *)
EXTENDS HookPlant

Prefixes ==
    [s \in Sites |->
        IF s \in {"BG_SiegeFindClassByName", "SVC_RemoteCommand"} THEN 9 ELSE 6]

\* The engine at the bottom of the address space, the libraries at the top.
Low == -16
SiteAddrs ==
    [s \in Sites |-> IF s = "BG_SiegeFindClassByName" THEN 2 ELSE Low]
DetourAddrs ==
    [s \in Sites |->
        CASE s = "BG_SiegeFindClassByName" -> 12
          [] s = "SV_ConnectionlessPacket" -> 13
          [] s = "SV_DoneDownload_f" -> 14
          [] s = "SVC_RemoteCommand" -> 15]
=============================================================================
