------------------------------- MODULE MCRemote -------------------------------
(* The range client and the parser of remote headers in one run, one at a     *)
(* time: focus says which one works while the other rests in an initial       *)
(* state.                                                                     *)
EXTENDS MCRangeClient, MCRemoteHeader

VARIABLE focus
remoteVars == <<focus, clientVars, vars>>

RemoteInit ==
  /\ focus \in {"client", "parser"}
  /\ focus = "client" \/ call = CHOOSE c \in Calls : TRUE
  /\ ClientInit /\ Init

RemoteNext ==
  \/ focus = "client" /\ ClientNext /\ UNCHANGED <<focus, vars>>
  \/ focus = "parser" /\ Next /\ UNCHANGED <<focus, clientVars>>

\* The fairness of FairClientSpec, for the client at work.
RemoteSpec ==
  /\ RemoteInit /\ [][RemoteNext]_remoteVars
  /\ WF_remoteVars(focus = "client" /\ Read /\ UNCHANGED <<focus, vars>>)

\* BoundedRangeClient.read returns or raises, whatever the provider redirects to
\* and however its bodies come (Ends of RangeClient, for the client at work).
ClientEnds == focus = "client" => Ends
=============================================================================
