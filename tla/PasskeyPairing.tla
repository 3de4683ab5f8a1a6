---------------------------- MODULE PasskeyPairing ----------------------------
(***************************************************************************)
(* Pairing by passkey: the handshake of each socket (PasskeyHandshake), the*)
(* challenge the adapter waits on, and the adv secret in memory and on     *)
(* disk.  Every await of the handshake is a step, between which the other  *)
(* handlers, a teardown and a crash may come.                              *)
(*                                                                         *)
(* WhatsApp answers a prologue with at most one continuation, which may    *)
(* arrive before the answer to the prologue's query.  A query on a socket  *)
(* that was closed is rejected.                                            *)
(***************************************************************************)
EXTENDS Naturals, Sequences, FiniteSets

CONSTANTS MaxSockets, MaxPrologues \* bounds: sockets made, prologue requests received

ASSUME PasskeyAssumption == MaxSockets \in Nat \ {0} /\ MaxPrologues \in Nat \ {0}

VARIABLES
  signer,   \* a passkey signer is configured
  cur,      \* the socket the adapter has, 0 for none; its handshake has its number
  creds,    \* [socket |-> its adv secret in memory]
  disk,     \* the secret that is saved
  key,      \* [socket |-> the secret of its handoffKey, 0 for none]: secrets start at 1
  pend,     \* [socket |-> the prologue that its pending is of, 0 for none]
  armed,    \* [socket |-> the prologue whose continuationTimer runs, 0 for none]
  runs,     \* the prologues handled: [socket, step, old, new, proof, carried, asked,
            \* overlapped, overtaken, untimely, told]
  waiting,  \* [prologue |-> its challenge: "none", "waiting", "answered" or "refused"]
  pendingPasskey, \* the prologue whose challenge resolvePasskey answers, 0 for none
  stale,    \* a challenge was settled that was not the pending one
  conts     \* continuations handled: [socket, run, step]

hands == <<key, pend, armed>>
vars  == <<signer, cur, creds, disk, hands, runs, waiting, pendingPasskey, stale, conts>>

\* A prologue is at one of these steps, and a continuation at "nonce" or "request".
Working == {"saving", "signing", "fetching", "querying"}
Steps   == Working \cup {"sent", "failed", "lost"}

Init ==
  /\ signer \in BOOLEAN /\ cur = 0 /\ creds = <<>> /\ disk = 1
  /\ key = <<>> /\ pend = <<>> /\ armed = <<>>
  /\ runs = <<>> /\ waiting = <<>> /\ pendingPasskey = 0 /\ stale = FALSE /\ conts = <<>>

Tell(run) == [run EXCEPT !.told = @ + 1]
Fail(r)   == runs' = [runs EXCEPT ![r] = Tell([@ EXCEPT !.step = "failed"])]
-----------------------------------------------------------------------------
(***************************************************************************)
(* Sockets                                                                 *)
(***************************************************************************)
\* Mutant of Disposed: the timer of the old socket is left.
DisposedNothing(set) == set

\* teardown: dispose, and the challenge that is pending is rejected.
Disposed(set) == IF cur = 0 THEN set ELSE [set EXCEPT ![cur] = 0]
Refused == IF pendingPasskey = 0 THEN waiting ELSE [waiting EXCEPT ![pendingPasskey] = "refused"]

Initialize ==
  /\ Len(creds) < MaxSockets
  /\ cur' = Len(creds) + 1 /\ creds' = Append(creds, disk)
  /\ key' = Append(Disposed(key), 0) /\ pend' = Append(Disposed(pend), 0)
  /\ armed' = Append(Disposed(armed), 0)
  /\ waiting' = Refused /\ pendingPasskey' = 0
  /\ runs' = [r \in DOMAIN runs |-> [runs[r] EXCEPT !.overtaken = @ \/ runs[r].step = "saving"]]
  /\ UNCHANGED <<signer, disk, stale, conts>>

Destroy ==
  /\ cur # 0 /\ cur' = 0
  /\ key' = Disposed(key) /\ pend' = Disposed(pend) /\ armed' = Disposed(armed)
  /\ waiting' = Refused /\ pendingPasskey' = 0
  /\ UNCHANGED <<signer, creds, disk, runs, stale, conts>>

\* The process ends; what is on disk stays.
Crash ==
  /\ cur # 0 /\ cur' = 0
  /\ key' = [h \in DOMAIN key |-> 0] /\ pend' = key' /\ armed' = key'
  /\ runs' = [r \in DOMAIN runs |->
                IF runs[r].step = "failed" THEN runs[r] ELSE [runs[r] EXCEPT !.step = "lost"]]
  /\ waiting' = [r \in DOMAIN waiting |-> "none"] /\ pendingPasskey' = 0 /\ stale' = FALSE
  /\ conts' = [i \in DOMAIN conts |-> [conts[i] EXCEPT !.step = "failed"]]
  /\ UNCHANGED <<signer, creds, disk>>

\* creds.update saves the credentials of the socket.
CredsUpdate ==
  /\ cur # 0 /\ disk' = creds[cur]
  /\ UNCHANGED <<signer, cur, creds, hands, runs, waiting, pendingPasskey, stale, conts>>
-----------------------------------------------------------------------------
(***************************************************************************)
(* The prologue                                                            *)
(***************************************************************************)
Continues(r) == \E i \in DOMAIN conts : conts[i].run = r /\ conts[i].step \in {"nonce", "request"}

\* A pairing that another prologue of this socket meets.
Overlaps(r) ==
  /\ runs[r].socket = cur
  /\ runs[r].step \in Working \cup {"sent"} \/ pend[cur] = r \/ Continues(r)

Begun(step, old) ==
  LET run == [socket |-> cur, step |-> step, old |-> old, new |-> Len(runs) + 2, proof |-> 0,
              carried |-> 0, asked |-> FALSE, overtaken |-> FALSE, untimely |-> FALSE, told |-> 0,
              overlapped |-> \E r \in DOMAIN runs : Overlaps(r)]
  IN  Append([r \in DOMAIN runs |-> [runs[r] EXCEPT !.overlapped = @ \/ Overlaps(r)]], run)

\* A request that cannot be read: the pairing failed.
PrologueUnreadable ==
  /\ cur # 0 /\ Len(runs) < MaxPrologues
  /\ runs' = [Begun("failed", creds[cur]) EXCEPT ![Len(runs) + 1] = Tell(@)]
  /\ waiting' = Append(waiting, "none")
  /\ UNCHANGED <<signer, cur, creds, disk, hands, pendingPasskey, stale, conts>>

\* Mutant of Prologue: the secret is rotated before the key is made of it.
PrologueRotatesFirst ==
  /\ cur # 0 /\ Len(runs) < MaxPrologues
  /\ runs' = Begun("saving", creds[cur]) /\ waiting' = Append(waiting, "none")
  /\ creds' = [creds EXCEPT ![cur] = Len(runs) + 2] /\ key' = [key EXCEPT ![cur] = Len(runs) + 2]
  /\ UNCHANGED <<signer, cur, disk, pend, armed, pendingPasskey, stale, conts>>

\* handlePrologue to its first await: the key is made of the old secret, and the secret
\* is rotated.
Prologue ==
  /\ cur # 0 /\ Len(runs) < MaxPrologues
  /\ runs' = Begun("saving", creds[cur]) /\ waiting' = Append(waiting, "none")
  /\ key' = [key EXCEPT ![cur] = creds[cur]] /\ creds' = [creds EXCEPT ![cur] = Len(runs) + 2]
  /\ UNCHANGED <<signer, cur, disk, pend, armed, pendingPasskey, stale, conts>>

\* signPasskey: a configured signer is asked, or else the challenge supersedes the one
\* that is pending and waits for its answer.
Sign(r) ==
  /\ runs' = [runs EXCEPT ![r].step = "signing", ![r].asked = TRUE]
  /\ IF signer
     THEN waiting' = [waiting EXCEPT ![r] = "waiting"] /\ UNCHANGED pendingPasskey
     ELSE waiting' = [Refused EXCEPT ![r] = "waiting"] /\ pendingPasskey' = r

\* Mutant of CredsSaved: it is not waited for that the secret is saved.
CredsNotSaved(r) ==
  /\ runs[r].step = "saving"
  /\ Sign(r)
  /\ UNCHANGED <<signer, cur, creds, disk, hands, stale, conts>>

CredsSaved(r) ==
  /\ runs[r].step = "saving"
  /\ disk' = creds[runs[r].socket]
  /\ Sign(r)
  /\ UNCHANGED <<signer, cur, creds, hands, stale, conts>>

CredsNotWritten(r) ==
  /\ runs[r].step = "saving" /\ Fail(r)
  /\ UNCHANGED <<signer, cur, creds, disk, hands, waiting, pendingPasskey, stale, conts>>

\* Mutant of Settles: the challenge that is over stays the pending one.
SettlesOnly(r, how) ==
  /\ waiting' = [waiting EXCEPT ![r] = IF @ = "waiting" THEN how ELSE @]
  /\ UNCHANGED <<signer, cur, creds, disk, hands, runs, pendingPasskey, stale, conts>>

\* settle, by the challenge's own resolve and reject, its timeout, or resolvePasskey and
\* rejectPasskey, and the promise, which is settled once.
Settles(r, how) ==
  /\ waiting' = [waiting EXCEPT ![r] = IF @ = "waiting" THEN how ELSE @]
  /\ pendingPasskey' = 0 /\ stale' = (stale \/ pendingPasskey # r)
  /\ UNCHANGED <<signer, cur, creds, disk, hands, runs, conts>>

SignerAnswers(r) ==
  /\ signer /\ waiting[r] = "waiting" /\ \E how \in {"answered", "refused"} : waiting' = [waiting EXCEPT ![r] = how]
  /\ UNCHANGED <<signer, cur, creds, disk, hands, runs, pendingPasskey, stale, conts>>

\* The handler of passkeyChallenge keeps its resolve and reject, and may call them late.
ChallengeAnswered(r) == ~signer /\ waiting[r] # "none" /\ \E how \in {"answered", "refused"} : Settles(r, how)

ChallengeTimesOut(r) == ~signer /\ waiting[r] = "waiting" /\ Settles(r, "refused")

\* resolvePasskey throws, and rejectPasskey does nothing, when there is none.
ResolvePasskey == pendingPasskey # 0 /\ Settles(pendingPasskey, "answered")
RejectPasskey  == pendingPasskey # 0 /\ Settles(pendingPasskey, "refused")

Signed(r) ==
  /\ runs[r].step = "signing" /\ waiting[r] = "answered"
  /\ runs' = [runs EXCEPT ![r].step = "fetching"]
  /\ UNCHANGED <<signer, cur, creds, disk, hands, waiting, pendingPasskey, stale, conts>>

\* Mutant of NotSigned: nobody is told.
NotSignedUntold(r) ==
  /\ runs[r].step = "signing" /\ waiting[r] = "refused"
  /\ runs' = [runs EXCEPT ![r].step = "failed"]
  /\ UNCHANGED <<signer, cur, creds, disk, hands, waiting, pendingPasskey, stale, conts>>

NotSigned(r) ==
  /\ runs[r].step = "signing" /\ waiting[r] = "refused" /\ Fail(r)
  /\ UNCHANGED <<signer, cur, creds, disk, hands, waiting, pendingPasskey, stale, conts>>

\* With the reference the prologue is pending, and is sent under the handoff key that
\* there is by then; without one, that throws.
RefFetched(r) ==
  LET h == runs[r].socket
  IN  /\ runs[r].step = "fetching" /\ cur = h
      /\ pend' = [pend EXCEPT ![h] = r]
      /\ IF key[h] = 0 THEN Fail(r)
         ELSE runs' = [runs EXCEPT ![r].step = "querying", ![r].proof = key[h]]
      /\ UNCHANGED <<signer, cur, creds, disk, key, armed, waiting, pendingPasskey, stale, conts>>

PrologueAnswered(r) ==
  LET h == runs[r].socket
  IN  /\ runs[r].step = "querying" /\ cur = h
      /\ runs' = [runs EXCEPT ![r].step = "sent"] /\ armed' = [armed EXCEPT ![h] = r]
      /\ UNCHANGED <<signer, cur, creds, disk, key, pend, waiting, pendingPasskey, stale, conts>>

QueryRejected(r) ==
  /\ runs[r].step \in {"fetching", "querying"} /\ Fail(r)
  /\ UNCHANGED <<signer, cur, creds, disk, hands, waiting, pendingPasskey, stale, conts>>

\* "timeout": WhatsApp never confirmed.  The pairing stays pending.
ContinuationTimesOut(h) ==
  /\ armed[h] # 0 /\ armed' = [armed EXCEPT ![h] = 0]
  /\ runs' = [runs EXCEPT ![armed[h]] = Tell(@)]
  /\ UNCHANGED <<signer, cur, creds, disk, key, pend, waiting, pendingPasskey, stale, conts>>
-----------------------------------------------------------------------------
(***************************************************************************)
(* The continuation                                                        *)
(***************************************************************************)
SentOn(h) == {r \in DOMAIN runs : runs[r].socket = h /\ runs[r].proof # 0}

\* History: nothing of the pairing waits for a continuation.  It was not answered yet, it
\* has ended, or it has one: this is then a late one of an earlier prologue.
Untimely(r) == runs[r].step # "sent" \/ runs[r].told # 0 \/ Continues(r)

\* A continuation of the pairing that is pending, if one is.
Begins ==
  /\ cur # 0
  /\ Cardinality({i \in DOMAIN conts : conts[i].socket = cur}) < Cardinality(SentOn(cur))
  /\ IF pend[cur] = 0 THEN UNCHANGED <<runs, conts>>
     ELSE /\ \E step \in {"nonce", "failed"} :
               conts' = Append(conts, [socket |-> cur, run |-> pend[cur], step |-> step])
          /\ runs' = [runs EXCEPT ![pend[cur]].untimely = @ \/ Untimely(pend[cur])]
  /\ UNCHANGED <<signer, cur, creds, disk, key, pend, waiting, pendingPasskey, stale>>

\* Mutant of Continuation: the timer runs on.
ContinuationOnly == Begins /\ armed' = armed

\* handleContinuation to its first await.  It may be unreadable, which is only logged.
Continuation == Begins /\ armed' = [armed EXCEPT ![cur] = 0]

NonceSent(i) ==
  /\ conts[i].step = "nonce" /\ cur = conts[i].socket
  /\ conts' = [conts EXCEPT ![i].step = "request"]
  /\ runs' = [runs EXCEPT ![conts[i].run].carried = creds[cur]]
  /\ UNCHANGED <<signer, cur, creds, disk, hands, waiting, pendingPasskey, stale>>

RequestSent(i) ==
  /\ conts[i].step = "request" /\ cur = conts[i].socket
  /\ conts' = [conts EXCEPT ![i].step = "done"]
  /\ pend' = [pend EXCEPT ![cur] = 0] /\ key' = [key EXCEPT ![cur] = 0]
  /\ runs' = [runs EXCEPT ![conts[i].run] = Tell(@)]
  /\ UNCHANGED <<signer, cur, creds, disk, armed, waiting, pendingPasskey, stale>>

ContinuationRejected(i) ==
  /\ conts[i].step \in {"nonce", "request"} /\ conts' = [conts EXCEPT ![i].step = "failed"]
  /\ UNCHANGED <<signer, cur, creds, disk, hands, runs, waiting, pendingPasskey, stale>>

Next ==
  \/ Initialize \/ Destroy \/ Crash \/ CredsUpdate
  \/ PrologueUnreadable \/ Prologue \/ ResolvePasskey \/ RejectPasskey \/ Continuation
  \/ \E r \in DOMAIN runs :
       \/ CredsSaved(r) \/ CredsNotWritten(r) \/ SignerAnswers(r) \/ ChallengeAnswered(r)
       \/ ChallengeTimesOut(r) \/ Signed(r) \/ NotSigned(r) \/ RefFetched(r)
       \/ PrologueAnswered(r) \/ QueryRejected(r)
  \/ \E h \in DOMAIN creds : ContinuationTimesOut(h)
  \/ \E i \in DOMAIN conts : NonceSent(i) \/ RequestSent(i) \/ ContinuationRejected(i)

Spec == Init /\ [][Next]_vars
-----------------------------------------------------------------------------
Secrets == 1 .. MaxPrologues + 1

TypeOK ==
  /\ cur \in 0 .. Len(creds) /\ Len(creds) <= MaxSockets /\ disk \in Secrets
  /\ \A h \in DOMAIN creds :
       /\ creds[h] \in Secrets /\ key[h] \in {0} \cup Secrets
       /\ {pend[h], armed[h]} \subseteq 0 .. Len(runs) /\ (h # cur => armed[h] = 0)
  /\ \A r \in DOMAIN runs : runs[r].step \in Steps /\ runs[r].socket \in DOMAIN creds

\* "Persisted before the signer is called, so a crash in between cannot leave two sessions
\* claiming the old secret": once the signer was asked, the secret it proves is not on disk
\* and never again will be, unless a socket was made while a secret was being saved.
OldSecretIsGone ==
  (\A r \in DOMAIN runs : ~runs[r].overtaken) =>
    \A r \in DOMAIN runs : runs[r].asked => disk # runs[r].old

\* The prologue proves the secret that was there when it was asked for, and the pairing
\* request carries the one that replaced it, unless prologues overlap on the socket.
SecretsAreOwn ==
  \A r \in DOMAIN runs : ~runs[r].overlapped =>
    runs[r].proof \in {0, runs[r].old} /\ runs[r].carried \in {0, runs[r].new}

\* A pairing's secrets are its own, and the one it replaced is gone.
SecretsAreSound == TypeOK /\ OldSecretIsGone /\ SecretsAreOwn

\* resolvePasskey answers a challenge that waits, and throws only when none does, or a
\* challenge that was over has been answered once more.
PendingIsWaiting ==
  /\ pendingPasskey # 0 => waiting[pendingPasskey] = "waiting"
  /\ (~signer /\ ~stale) => \A r \in DOMAIN runs : waiting[r] = "waiting" => pendingPasskey = r

\* Whoever paired is told how it ended: when it failed, and when it was sent and neither
\* its timer nor its continuation is on the way, unless the continuation failed, the socket
\* is gone or another prologue came in between.
EndIsTold ==
  \A r \in DOMAIN runs :
    \/ runs[r].told > 0
    \/ runs[r].step \in Working \cup {"lost"}
    \/ runs[r].step = "sent" /\ \/ armed[runs[r].socket] = r \/ Continues(r)
                                \/ cur # runs[r].socket \/ runs[r].overlapped
                                \/ \E i \in DOMAIN conts : conts[i].run = r /\ conts[i].step = "failed"

\* "told how the pairing ended, once": twice only when a continuation came while none was
\* due, before the prologue was answered, after the pairing had ended or with another
\* under way, or prologues overlap.
ToldTwiceOnlyIfUntimely ==
  \A r \in DOMAIN runs : runs[r].told > 1 => runs[r].untimely \/ runs[r].overlapped

\* Whoever paired is told the end of it, and told once.
EndIsToldOnce == EndIsTold /\ ToldTwiceOnlyIfUntimely
=============================================================================
