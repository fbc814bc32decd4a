------------------------------ MODULE MCServer ------------------------------
(***************************************************************************)
(* One run over five parts of the server that share no state: a behaviour  *)
(* is one of the part that `focus` names, the others stay as they began.   *)
(*                                                                         *)
(* A ring of three bytes, so that chunks, the keyframe's window and the    *)
(* ring's end meet in every order; windows of which neither fits in the    *)
(* other; one session and an event channel that its own events overflow.   *)
(***************************************************************************)
EXTENDS RingBuffer, MuxGeometry, Keyframe, Viewport, Registry, TLC

CONSTANTS
  c1, c2, v1, v2

VARIABLE focus

Alike      == Permutations(Clients)
TwoConns   == {v1, v2}
TwoClients == {c1, c2}
TwoWindows == {[cols |-> 2, rows |-> 1], [cols |-> 1, rows |-> 2]}
OneSession == {"s1"}

\* Grids are interchangeable: which one is first says nothing, nor do the values
\* a part begins with while another is in focus.
ServerInit ==
  /\ focus \in {"ring", "geometry", "keyframe", "viewport", "registry"}
  /\ RingInit /\ Init /\ KeyframeInit /\ ViewportInit /\ RegistryInit
  /\ dgrid = CHOOSE g \in TermSizes : TRUE
  /\ focus # "geometry" => size = CHOOSE w \in Windows : TRUE
  /\ focus # "registry" => \A id \in Ids : sessions[id] = "none"

\* Connections differ in nothing: which of them comes first says nothing.
InOrder == epochs = 0 /\ epochs' = 1 => epoch'[v1] = 1

ServerNext ==
  /\ UNCHANGED focus
  /\ \/ focus = "ring" /\ RingNext /\ UNCHANGED <<vars, keyframeVars, viewportVars, registryVars>>
     \/ focus = "geometry" /\ Next /\ UNCHANGED <<ringVars, keyframeVars, viewportVars, registryVars>>
     \/ focus = "keyframe" /\ KeyframeNext /\ UNCHANGED <<ringVars, vars, viewportVars, registryVars>>
     \/ focus = "viewport" /\ ViewportNext /\ InOrder /\ UNCHANGED <<ringVars, vars, keyframeVars, registryVars>>
     \/ focus = "registry" /\ RegistryNext /\ UNCHANGED <<ringVars, vars, keyframeVars, viewportVars>>

ServerSpec == ServerInit /\ [][ServerNext]_<<focus, ringVars, vars, keyframeVars, viewportVars, registryVars>>
-----------------------------------------------------------------------------
(***************************************************************************)
(* Properties of the parts, stated in their modules.                       *)
(***************************************************************************)

\* Every part keeps its types and bounds; in particular no event channel, window
\* or ring outgrows its capacity.
TypesHold == RingTypeOK /\ TypeOK /\ KeyframeTypeOK /\ ViewportTypeOK /\ RegistryTypeOK
=============================================================================
