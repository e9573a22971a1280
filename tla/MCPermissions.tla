--------------------------- MODULE MCPermissions ---------------------------
(* A folder and an actor row it may hold; an agent and a viewer of one group. *)
EXTENDS Permissions, TLC

G == 1
MCActors == {2}
MCUidOf == 2 :> 3
Agent == [uid |-> 1, memberships |-> G :> AGENT]
Viewer == [uid |-> 2, memberships |-> G :> VIEWER]
MCClaims == {Agent, Viewer}
MCGroupIds == {G}
(* Readable below the write floor, and writable below the read floor. *)
MCFloors == {<<VIEWER, AGENT>>, <<AGENT, VIEWER>>}
MCUids == {2}
MCGrants == {G :> AGENT, WORLD :> AGENT}
Both == {"sync", "async"}
Sync == {"sync"}
Faults == {"fail", "forge"}
=============================================================================
