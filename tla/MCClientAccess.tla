---------------------------- MODULE MCClientAccess ----------------------------
(***************************************************************************)
(* Two clients, the second with adapters that list their events and        *)
(* subtract a capability; two functions of the application, one of which   *)
(* throws; a listener for one client, a once for all, a managed one.       *)
(***************************************************************************)
EXTENDS ClientAccess

CONSTANTS c1, c2, h1, h2, f1, f2, f3

MCClients   == {c1, c2}
MCSupported == [c \in MCClients |-> IF c = c1 THEN None ELSE {"messageStatus"}]
MCFound ==
  {[handler |-> f1, event |-> "ready", once |-> FALSE, only |-> {c1}, managed |-> FALSE],
   [handler |-> f2, event |-> "messageStatus", once |-> TRUE, only |-> None, managed |-> FALSE],
   [handler |-> f3, event |-> "messageStatus", once |-> FALSE, only |-> None, managed |-> TRUE]}
MCImplemented  == [c \in MCClients |-> {"sendSeen", "sendPoll"} \ (IF c = c1 THEN {} ELSE {"sendSeen"})]
MCUnsupported  == [c \in MCClients |-> IF c = c1 THEN {} ELSE {"polls"}]
MCBuiltIn      == [readReceipts |-> "sendSeen"]
MCPackages     == {<<"polls", "sendPoll">>, <<"readReceipts", "markRead">>}
MCDerived      == {"ready"}
MCNative       == {"messageStatus", "presenceUpdate"}
=============================================================================
