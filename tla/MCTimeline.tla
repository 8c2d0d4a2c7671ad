----------------------------- MODULE MCTimeline -----------------------------
(* Three turns: a command with two pieces of output; a message in two      *)
(* pieces while a command is still running, the turn being interrupted; a  *)
(* command heard of when it is over, a plan and a short message.           *)
EXTENDS Timeline

CONSTANTS command, message

E(kind, x) == [kind |-> kind, x |-> x]
MCItems == {command, message}
MCCommands == {command}
MCScripts ==
    {<<E("started", command), E("delta", command), E("delta", command),
       E("completed", command), E("end", Header)>>,
     <<E("started", command), E("delta", message), E("delta", message),
       E("completed", message), E("end", Header)>>,
     <<E("completed", command), E("plan", Header), E("delta", message),
       E("completed", message), E("end", Header)>>}
=============================================================================
