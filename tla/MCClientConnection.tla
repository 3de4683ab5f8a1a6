------------------------ MODULE MCClientConnection ------------------------
EXTENDS ClientConnection, AdapterProtocols

\* The default of maxAttempts: the runner never gives up.
NoLimit == Unlimited

\* Two recoverable reasons, a terminal one, and none given.
Reasons == {"connection_lost", "conflict", "auth_failure", NoReason}
=============================================================================
