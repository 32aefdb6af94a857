---------------------------- MODULE PidRegistry ----------------------------
(***************************************************************************)
(* What the process table promises about process identifiers, without      *)
(* slots, epochs or free lists: an identifier is handed out at most once   *)
(* during the whole uptime of the kernel (ku/src/process/pid.rs), so a     *)
(* stale identifier can never name a younger process.                      *)
(***************************************************************************)
CONSTANT Ids        \* every identifier the kernel can form

VARIABLES live,     \* identifiers of the processes that exist now
          retired   \* identifiers whose process is gone

registryVars == <<live, retired>>

RegistryInit == live = {} /\ retired = {}

\* Gives a new process an identifier that nobody has ever had.
Issue(id) ==
    /\ id \notin live \cup retired
    /\ live' = live \cup {id}
    /\ UNCHANGED retired

\* Destroys the process; its identifier is spent.
Retire(id) ==
    /\ id \in live
    /\ live' = live \ {id}
    /\ retired' = retired \cup {id}

RegistryNext == \E id \in Ids : Issue(id) \/ Retire(id)

RegistrySpec == RegistryInit /\ [][RegistryNext]_registryVars
=============================================================================
