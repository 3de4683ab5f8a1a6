--------------------------- MODULE MCBaileysClient ---------------------------
EXTENDS BaileysClient, TLC

\* The runner never gives up.
NoLimit == Unlimited

\* The core accepts whatever the adapter reports; the socket decides.
Anything == [p \in Phase |-> Status]

\* A close the runner retries after, one it does not, and updates without a
\* reason.
CloseReasons == {"restart_required", "logged_out", NoReason}

Interchangeable == Permutations(Sockets)
=============================================================================
