------------------------ MODULE PasskeyPairingProofs ------------------------
(***************************************************************************)
(* What holds of pairings by passkey for any number of sockets, prologues  *)
(* and continuations.                                                      *)
(***************************************************************************)
EXTENDS PasskeyPairing, SequenceTheorems, TLAPS

Run ==
  [socket : Nat, step : Steps, old : Nat, new : Nat, proof : Nat, carried : Nat,
   asked : BOOLEAN, overlapped : BOOLEAN, overtaken : BOOLEAN, untimely : BOOLEAN, told : Nat]
Answer == {"none", "waiting", "answered", "refused"}
Cont   == [socket : Nat, run : Nat, step : {"nonce", "request", "done", "failed"}]

Shape ==
  /\ signer \in BOOLEAN /\ stale \in BOOLEAN
  /\ creds \in Seq(Nat) /\ Len(creds) <= MaxSockets /\ cur \in {0, Len(creds)}
  /\ key \in [1 .. Len(creds) -> Nat]
  /\ pend \in [1 .. Len(creds) -> Nat] /\ armed \in [1 .. Len(creds) -> Nat]
  /\ runs \in Seq(Run) /\ Len(runs) <= MaxPrologues
  /\ waiting \in [1 .. Len(runs) -> Answer]
  /\ pendingPasskey \in 0 .. Len(runs)
  /\ conts \in Seq(Cont)

\* A secret is the first one or that of a prologue there was, and what is on a socket
\* is of that socket.
Fresh(s) == s \in 1 .. Len(runs) + 1

SocketsOwn ==
  \A h \in 1 .. Len(creds) :
    /\ Fresh(creds[h]) /\ key[h] \in 0 .. Len(runs) + 1
    /\ pend[h] \in 0 .. Len(runs) /\ (pend[h] # 0 => runs[pend[h]].socket = h)
    /\ armed[h] \in 0 .. Len(runs) /\ (h # cur => armed[h] = 0)

RunsOwn ==
  \A r \in 1 .. Len(runs) :
    runs[r].socket \in 1 .. Len(creds) /\ runs[r].new = r + 1 /\ runs[r].old \in 1 .. r

ContsOwn ==
  \A i \in 1 .. Len(conts) :
    conts[i].run \in 1 .. Len(runs) /\ runs[conts[i].run].socket = conts[i].socket

Owned == Fresh(disk) /\ SocketsOwn /\ RunsOwn /\ ContsOwn

\* The signer was asked of a secret that is neither on disk nor in the socket that saves.
Gone ==
  /\ \A r \in 1 .. Len(runs) : runs[r].step = "saving" => creds[runs[r].socket] > runs[r].old
  /\ (\A r \in 1 .. Len(runs) : ~runs[r].overtaken) =>
       \A r \in 1 .. Len(runs) :
         /\ runs[r].asked => disk # runs[r].old /\ creds[Len(creds)] # runs[r].old
         /\ runs[r].step = "saving" => runs[r].socket = Len(creds)

\* A prologue that is under way, or that a continuation may still be of.
Live(r) == runs[r].step \in Working \cup {"sent"} \/ pend[runs[r].socket] = r \/ Continues(r)

Own ==
  \A r \in 1 .. Len(runs) : ~runs[r].overlapped =>
    /\ runs[r].proof \in {0, runs[r].old} /\ runs[r].carried \in {0, runs[r].new}
    /\ runs[r].step \in {"saving", "signing", "fetching"} =>
         key[runs[r].socket] \in {0, runs[r].old}
    /\ Live(r) => creds[runs[r].socket] = runs[r].new

SecretInv == Shape /\ Owned /\ Gone /\ Own

\* Who waits for an answer is the one that is pending.
WaitInv ==
  /\ signer => pendingPasskey = 0
  /\ PendingIsWaiting
-----------------------------------------------------------------------------
(* What there is to know of one entry of a sequence that is replaced. *)
LEMMA EntryReplaced ==
  ASSUME NEW S, NEW s \in Seq(S), NEW i \in 1 .. Len(s), NEW e \in S
  PROVE  /\ [s EXCEPT ![i] = e] \in Seq(S) /\ Len([s EXCEPT ![i] = e]) = Len(s)
         /\ [s EXCEPT ![i] = e][i] = e
         /\ \A j \in 1 .. Len(s) : j # i => [s EXCEPT ![i] = e][j] = s[j]
BY ExceptSeq

(* And of one that is added. *)
LEMMA EntryAdded ==
  ASSUME NEW S, NEW s \in Seq(S), NEW e \in S
  PROVE  /\ Append(s, e) \in Seq(S) /\ Len(Append(s, e)) = Len(s) + 1
         /\ Append(s, e)[Len(s) + 1] = e
         /\ \A j \in 1 .. Len(s) : Append(s, e)[j] = s[j]
BY AppendProperties

(* The entries of the sequences are numbered. *)
LEMMA Entries ==
  ASSUME Shape
  PROVE  /\ DOMAIN runs = 1 .. Len(runs) /\ DOMAIN creds = 1 .. Len(creds)
         /\ DOMAIN conts = 1 .. Len(conts)
         /\ Len(runs) \in Nat /\ Len(creds) \in Nat /\ Len(conts) \in Nat
         /\ \A r \in 1 .. Len(runs) : runs[r] \in Run
         /\ \A i \in 1 .. Len(conts) : conts[i] \in Cont
         /\ \A h \in 1 .. Len(creds) : creds[h] \in Nat
BY LenProperties, ElementOfSeq DEF Shape
-----------------------------------------------------------------------------
(* A step of one prologue that leaves the credentials and the sockets alone: what it *)
(* must keep for the secrets to stay its own.                                        *)
LEMMA OneRunMoves ==
  ASSUME Shape, Owned, NEW r \in 1 .. Len(runs), NEW e \in Run, runs' = [runs EXCEPT ![r] = e],
         e.socket = runs[r].socket, e.old = runs[r].old, e.new = runs[r].new,
         e.overlapped = runs[r].overlapped, e.overtaken = runs[r].overtaken
  PROVE  /\ runs' \in Seq(Run) /\ Len(runs') = Len(runs) /\ runs'[r] = e
         /\ \A q \in 1 .. Len(runs) :
              /\ q # r => runs'[q] = runs[q]
              /\ runs'[q].socket = runs[q].socket
              /\ runs'[q].old = runs[q].old /\ runs'[q].new = runs[q].new
              /\ runs'[q].overlapped = runs[q].overlapped
              /\ runs'[q].overtaken = runs[q].overtaken
<1>1. runs \in Seq(Run)
  BY DEF Shape
<1>2. QED
  BY <1>1, EntryReplaced

(* The entry a step makes of a prologue's. *)
LEMMA EntryOf ==
  ASSUME Shape, NEW r \in 1 .. Len(runs)
  PROVE  /\ \A step \in Steps :
              /\ [runs[r] EXCEPT !.step = step] \in Run
              /\ [runs EXCEPT ![r].step = step] = [runs EXCEPT ![r] = [runs[r] EXCEPT !.step = step]]
         /\ [runs[r] EXCEPT !.step = "signing", !.asked = TRUE] \in Run
         /\ [runs EXCEPT ![r].step = "signing", ![r].asked = TRUE] =
              [runs EXCEPT ![r] = [runs[r] EXCEPT !.step = "signing", !.asked = TRUE]]
         /\ [runs[r] EXCEPT !.step = "failed", !.told = @ + 1] \in Run
         /\ [runs[r] EXCEPT !.told = @ + 1] \in Run
         /\ \A s \in Nat :
              /\ [runs[r] EXCEPT !.step = "querying", !.proof = s] \in Run
              /\ [runs EXCEPT ![r].step = "querying", ![r].proof = s] =
                   [runs EXCEPT ![r] = [runs[r] EXCEPT !.step = "querying", !.proof = s]]
              /\ [runs[r] EXCEPT !.carried = s] \in Run
              /\ [runs EXCEPT ![r].carried = s] = [runs EXCEPT ![r] = [runs[r] EXCEPT !.carried = s]]
<1>1. runs[r] \in Run /\ {"signing", "failed", "querying"} \subseteq Steps
  BY Entries DEF Steps, Working
<1>2. \A step \in Steps : [runs[r] EXCEPT !.step = step] \in Run
  BY <1>1 DEF Run
<1>3. [runs[r] EXCEPT !.step = "signing", !.asked = TRUE] \in Run
  BY <1>1 DEF Run
<1>4. /\ [runs[r] EXCEPT !.step = "failed", !.told = @ + 1] \in Run
      /\ [runs[r] EXCEPT !.told = @ + 1] \in Run
  <2>1. runs[r].told + 1 \in Nat
    BY <1>1 DEF Run
  <2>2. \A n \in Nat : /\ [runs[r] EXCEPT !.step = "failed", !.told = n] \in Run
                      /\ [runs[r] EXCEPT !.told = n] \in Run
    BY <1>1 DEF Run
  <2>3. QED
    BY <2>1, <2>2
<1>5. \A s \in Nat : /\ [runs[r] EXCEPT !.step = "querying", !.proof = s] \in Run
                    /\ [runs[r] EXCEPT !.carried = s] \in Run
  BY <1>1 DEF Run
<1>6. [runs EXCEPT ![r].step = "signing", ![r].asked = TRUE] =
        [runs EXCEPT ![r] = [runs[r] EXCEPT !.step = "signing", !.asked = TRUE]]
  BY Entries
<1>7. \A s \in Nat : [runs EXCEPT ![r].step = "querying", ![r].proof = s] =
        [runs EXCEPT ![r] = [runs[r] EXCEPT !.step = "querying", !.proof = s]]
  BY Entries
<1>8. QED
  BY <1>2, <1>3, <1>4, <1>5, <1>6, <1>7
-----------------------------------------------------------------------------
(* A step that no prologue takes and no secret changes in keeps the secrets' invariant. *)
LEMMA NoRunKeeps ==
  ASSUME SecretInv, UNCHANGED <<signer, creds, runs>>, cur' \in {0, cur}, stale' \in BOOLEAN,
         disk' = disk \/ (cur # 0 /\ disk' = creds[cur]),
         key' \in [1 .. Len(creds) -> Nat], pend' \in [1 .. Len(creds) -> Nat],
         armed' \in [1 .. Len(creds) -> Nat],
         \A h \in 1 .. Len(creds) :
           /\ key'[h] \in {0, key[h]} /\ pend'[h] \in {0, pend[h]}
           /\ armed'[h] \in {0, armed[h]} /\ (h # cur' => armed'[h] = 0),
         waiting' \in [1 .. Len(runs) -> Answer], pendingPasskey' \in 0 .. Len(runs),
         conts' \in Seq(Cont), Len(conts') = Len(conts),
         \A i \in 1 .. Len(conts) :
           /\ conts'[i].run = conts[i].run /\ conts'[i].socket = conts[i].socket
           /\ conts'[i].step \in {"nonce", "request"} => conts[i].step \in {"nonce", "request"}
  PROVE  SecretInv'
<1> USE DEF SecretInv
<1>0. /\ Len(creds) \in Nat /\ Len(runs) \in Nat /\ cur \in {0, Len(creds)}
      /\ DOMAIN conts = 1 .. Len(conts) /\ DOMAIN conts' = 1 .. Len(conts)
  BY Entries, LenProperties DEF Shape
<1>1. Shape'
  BY <1>0 DEF Shape
<1>2. Owned'
  <2>1. Fresh(disk)'
    BY <1>0 DEF Owned, SocketsOwn, Fresh
  <2>2. SocketsOwn'
    <3> SUFFICES ASSUME NEW h \in 1 .. Len(creds)
                 PROVE  /\ Fresh(creds[h])' /\ key'[h] \in 0 .. Len(runs) + 1
                        /\ pend'[h] \in 0 .. Len(runs) /\ (pend'[h] # 0 => runs[pend'[h]].socket = h)
                        /\ armed'[h] \in 0 .. Len(runs) /\ (h # cur' => armed'[h] = 0)
      BY DEF SocketsOwn
    <3>1. /\ Fresh(creds[h]) /\ key[h] \in 0 .. Len(runs) + 1
          /\ pend[h] \in 0 .. Len(runs) /\ (pend[h] # 0 => runs[pend[h]].socket = h)
          /\ armed[h] \in 0 .. Len(runs)
      BY DEF Owned, SocketsOwn
    <3>2. /\ key'[h] \in {0, key[h]} /\ pend'[h] \in {0, pend[h]}
          /\ armed'[h] \in {0, armed[h]} /\ (h # cur' => armed'[h] = 0)
      OBVIOUS
    <3>3. key'[h] \in 0 .. Len(runs) + 1 /\ pend'[h] \in 0 .. Len(runs) /\ armed'[h] \in 0 .. Len(runs)
      <4>1. Len(runs) \in Nat
        BY <1>0
      <4>2. QED
        BY <3>1, <3>2, <4>1
    <3>4. Fresh(creds[h])'
      BY <3>1 DEF Fresh
    <3>5. QED
      BY <3>1, <3>2, <3>3, <3>4
  <2>3. RunsOwn' /\ ContsOwn'
    BY <1>0 DEF Owned, RunsOwn, ContsOwn
  <2>4. QED
    BY <2>1, <2>2, <2>3 DEF Owned
<1>3. Gone'
  BY <1>0 DEF Gone
<1>4. Own'
  <2>1. \A r \in 1 .. Len(runs) : Continues(r)' => Continues(r)
    BY <1>0 DEF Continues
  <2>2. \A r \in 1 .. Len(runs) : Live(r)' => Live(r)
    BY <2>1 DEF Live, Owned, RunsOwn
  <2>3. QED
    BY <2>2 DEF Own, Owned, RunsOwn
<1>5. QED
  BY <1>1, <1>2, <1>3, <1>4

(* The continuations there are belong to prologues that are live. *)
LEMMA ContsStand ==
  ASSUME Shape, Owned
  PROVE  \A i \in 1 .. Len(conts) :
           /\ conts[i].run \in 1 .. Len(runs) /\ runs[conts[i].run].socket = conts[i].socket
           /\ conts[i].step \in {"nonce", "request"} => Live(conts[i].run)
BY Entries DEF Owned, ContsOwn, Live, Continues

(* A step of one prologue, its continuations with it, that asks no signer anew. *)
LEMMA OneRunKeeps ==
  ASSUME SecretInv, UNCHANGED <<signer, creds, cur, disk, stale>>,
         NEW r \in 1 .. Len(runs), NEW e \in Run, runs' = [runs EXCEPT ![r] = e],
         e.socket = runs[r].socket, e.old = runs[r].old, e.new = runs[r].new,
         e.overlapped = runs[r].overlapped, e.overtaken = runs[r].overtaken,
         e.asked = runs[r].asked, e.step = "saving" => runs[r].step = "saving",
         e.step \in {"signing", "fetching"} => runs[r].step \in {"saving", "signing", "fetching"},
         e.step \in Working \cup {"sent"} => runs[r].step \in Working \cup {"sent"},
         ~runs[r].overlapped =>
           e.proof \in {0, runs[r].old} /\ e.carried \in {0, runs[r].new},
         key' \in [1 .. Len(creds) -> Nat], pend' \in [1 .. Len(creds) -> Nat],
         armed' \in [1 .. Len(creds) -> Nat],
         \A h \in 1 .. Len(creds) :
           /\ key'[h] \in {0, key[h]}
           /\ \/ pend'[h] \in {0, pend[h]}
              \/ h = runs[r].socket /\ pend'[h] = r /\ runs[r].step \in Working
           /\ \/ armed'[h] \in {0, armed[h]}
              \/ h = cur /\ armed'[h] = r,
         waiting' \in [1 .. Len(runs) -> Answer], pendingPasskey' \in 0 .. Len(runs),
         conts' \in Seq(Cont),
         \A i \in 1 .. Len(conts') :
           /\ conts'[i].run \in 1 .. Len(runs) /\ runs[conts'[i].run].socket = conts'[i].socket
           /\ conts'[i].step \in {"nonce", "request"} => Live(conts'[i].run)
  PROVE  SecretInv'
<1> USE DEF SecretInv
<1>0. /\ Len(creds) \in Nat /\ Len(runs) \in Nat /\ cur \in {0, Len(creds)}
      /\ DOMAIN conts' = 1 .. Len(conts')
  BY Entries, LenProperties DEF Shape
<1>1. /\ runs' \in Seq(Run) /\ Len(runs') = Len(runs) /\ runs'[r] = e
      /\ \A q \in 1 .. Len(runs) :
           /\ q # r => runs'[q] = runs[q]
           /\ runs'[q].socket = runs[q].socket
           /\ runs'[q].old = runs[q].old /\ runs'[q].new = runs[q].new
           /\ runs'[q].overlapped = runs[q].overlapped
           /\ runs'[q].overtaken = runs[q].overtaken
  BY OneRunMoves
<1>2. Shape'
  BY <1>0, <1>1 DEF Shape
<1>3. Owned'
  <2>1. Fresh(disk)'
    BY <1>1 DEF Owned, Fresh
  <2>2. SocketsOwn'
    <3> SUFFICES ASSUME NEW h \in 1 .. Len(creds)
                 PROVE  /\ Fresh(creds[h])' /\ key'[h] \in 0 .. Len(runs) + 1
                        /\ pend'[h] \in 0 .. Len(runs) /\ (pend'[h] # 0 => runs'[pend'[h]].socket = h)
                        /\ armed'[h] \in 0 .. Len(runs) /\ (h # cur => armed'[h] = 0)
      BY <1>1 DEF SocketsOwn
    <3>1. /\ Fresh(creds[h]) /\ key[h] \in 0 .. Len(runs) + 1
          /\ pend[h] \in 0 .. Len(runs) /\ (pend[h] # 0 => runs[pend[h]].socket = h)
          /\ armed[h] \in 0 .. Len(runs) /\ (h # cur => armed[h] = 0)
      BY DEF Owned, SocketsOwn
    <3>2. pend'[h] \in 0 .. Len(runs) /\ (pend'[h] # 0 => runs[pend'[h]].socket = h)
      BY <1>0, <3>1
    <3>3. Fresh(creds[h])' /\ key'[h] \in 0 .. Len(runs) + 1
      <4>1. creds' = creds /\ Len(runs') = Len(runs) /\ key'[h] \in {0, key[h]}
        BY <1>1
      <4>2. QED
        BY <1>0, <3>1, <4>1 DEF Fresh
    <3>4. armed'[h] \in 0 .. Len(runs) /\ (h # cur => armed'[h] = 0)
      <4>1. \/ armed'[h] \in {0, armed[h]}
            \/ h = cur /\ armed'[h] = r
        OBVIOUS
      <4>2. QED
        BY <1>0, <3>1, <4>1
    <3>5. QED
      BY <3>2, <3>3, <3>4
  <2>3. RunsOwn' /\ ContsOwn'
    <3>1. RunsOwn'
      <4>1. \A q \in 1 .. Len(runs) :
              runs[q].socket \in 1 .. Len(creds) /\ runs[q].new = q + 1 /\ runs[q].old \in 1 .. q
        BY DEF Owned, RunsOwn
      <4>2. creds' = creds /\ Len(runs') = Len(runs)
        BY <1>1
      <4>3. \A q \in 1 .. Len(runs) :
              /\ runs'[q].socket = runs[q].socket
              /\ runs'[q].old = runs[q].old /\ runs'[q].new = runs[q].new
        BY <1>1
      <4>4. \A q \in 1 .. Len(runs) :
              runs'[q].socket \in 1 .. Len(creds) /\ runs'[q].new = q + 1 /\ runs'[q].old \in 1 .. q
        BY <4>1, <4>3
      <4>5. QED
        BY <4>2, <4>4 DEF RunsOwn
    <3>2. ContsOwn'
      BY <1>1 DEF Owned, ContsOwn
    <3>3. QED
      BY <3>1, <3>2
  <2>4. QED
    BY <2>1, <2>2, <2>3 DEF Owned
<1>4. Gone'
  <2>1. \A q \in 1 .. Len(runs) :
          runs'[q].asked = runs[q].asked /\ (runs'[q].step = "saving" => runs[q].step = "saving")
    BY <1>1
  <2>2. \A q \in 1 .. Len(runs) : runs'[q].step = "saving" =>
          creds'[runs'[q].socket] > runs'[q].old
    BY <1>1, <2>1 DEF Gone
  <2>3. ASSUME \A q \in 1 .. Len(runs) : ~runs'[q].overtaken, NEW q \in 1 .. Len(runs)
        PROVE  /\ runs'[q].asked => disk' # runs'[q].old /\ creds'[Len(creds')] # runs'[q].old
               /\ runs'[q].step = "saving" => runs'[q].socket = Len(creds')
    <3>1. \A p \in 1 .. Len(runs) : ~runs[p].overtaken
      BY <1>1, <2>3
    <3>2. /\ runs[q].asked => disk # runs[q].old /\ creds[Len(creds)] # runs[q].old
          /\ runs[q].step = "saving" => runs[q].socket = Len(creds)
      BY <3>1 DEF Gone
    <3>3. QED
      BY <1>1, <2>1, <3>2
  <2>4. QED
    BY <1>1, <2>2, <2>3 DEF Gone
<1>5. Own'
  <2>1. \A q \in 1 .. Len(runs) : Continues(q)' => Live(q)
    BY <1>0 DEF Continues
  <2>2. \A q \in 1 .. Len(runs) : Live(q)' => Live(q)
    <3> SUFFICES ASSUME NEW q \in 1 .. Len(runs), Live(q)' PROVE Live(q)
      OBVIOUS
    <3>1. runs[q].socket \in 1 .. Len(creds)
      BY DEF Owned, RunsOwn
    <3>2. runs'[q].step \in Working \cup {"sent"} => Live(q)
      BY <1>1 DEF Live
    <3>3. pend'[runs[q].socket] = q => Live(q)
      BY <1>1, <3>1 DEF Live
    <3>4. QED
      BY <1>1, <2>1, <3>2, <3>3 DEF Live
  <2>3. SUFFICES ASSUME NEW q \in 1 .. Len(runs), ~runs[q].overlapped
                 PROVE  /\ runs'[q].proof \in {0, runs[q].old} /\ runs'[q].carried \in {0, runs[q].new}
                        /\ runs'[q].step \in {"saving", "signing", "fetching"} =>
                             key'[runs[q].socket] \in {0, runs[q].old}
                        /\ Live(q)' => creds[runs[q].socket] = runs[q].new
    BY <1>1 DEF Own
  <2>4. runs[q].socket \in 1 .. Len(creds)
    BY DEF Owned, RunsOwn
  <2>5. /\ runs[q].proof \in {0, runs[q].old} /\ runs[q].carried \in {0, runs[q].new}
        /\ runs[q].step \in {"saving", "signing", "fetching"} =>
             key[runs[q].socket] \in {0, runs[q].old}
        /\ Live(q) => creds[runs[q].socket] = runs[q].new
    BY <2>3 DEF Own
  <2>6. CASE q = r
    BY <1>1, <2>2, <2>3, <2>4, <2>5, <2>6
  <2>7. CASE q # r
    BY <1>1, <2>2, <2>4, <2>5, <2>7
  <2>8. QED
    BY <2>6, <2>7
<1>6. QED
  BY <1>2, <1>3, <1>4, <1>5

(* The signer is asked once the new secret is saved. *)
LEMMA CredsSavedKeeps == ASSUME SecretInv, NEW r \in 1 .. Len(runs), CredsSaved(r) PROVE SecretInv'
<1> USE DEF SecretInv
<1> DEFINE e == [runs[r] EXCEPT !.step = "signing", !.asked = TRUE]
<1>0. Len(creds) \in Nat /\ Len(runs) \in Nat
  BY Entries
<1>1. /\ runs[r].step = "saving" /\ runs' = [runs EXCEPT ![r] = e]
      /\ disk' = creds[runs[r].socket]
      /\ UNCHANGED <<signer, cur, creds, key, pend, armed, stale, conts>>
  BY EntryOf, Zenon DEF CredsSaved, Sign, hands
<1>2. /\ e \in Run /\ e.socket = runs[r].socket /\ e.old = runs[r].old /\ e.new = runs[r].new
      /\ e.overlapped = runs[r].overlapped /\ e.overtaken = runs[r].overtaken
      /\ e.proof = runs[r].proof /\ e.carried = runs[r].carried
      /\ e.step = "signing" /\ e.asked = TRUE
  <2>1. e \in Run
    BY EntryOf, Zenon
  <2>2. runs[r] \in Run
    BY Entries
  <2>3. QED
    BY <2>1, <2>2 DEF Run
<1> HIDE DEF e
<1>3. /\ runs' \in Seq(Run) /\ Len(runs') = Len(runs) /\ runs'[r] = e
      /\ \A q \in 1 .. Len(runs) :
           /\ q # r => runs'[q] = runs[q]
           /\ runs'[q].socket = runs[q].socket
           /\ runs'[q].old = runs[q].old /\ runs'[q].new = runs[q].new
           /\ runs'[q].overlapped = runs[q].overlapped
           /\ runs'[q].overtaken = runs[q].overtaken
  BY <1>1, <1>2, OneRunMoves
<1>4. waiting' \in [1 .. Len(runs) -> Answer] /\ pendingPasskey' \in 0 .. Len(runs)
  <2>1. Refused \in [1 .. Len(runs) -> Answer] /\ waiting \in [1 .. Len(runs) -> Answer]
    BY DEF Shape, Refused, Answer
  <2>2. /\ \E w \in {waiting, Refused} : waiting' = [w EXCEPT ![r] = "waiting"]
        /\ pendingPasskey' \in {pendingPasskey, r}
    BY DEF CredsSaved, Sign
  <2>3. QED
    BY <1>0, <2>1, <2>2 DEF Shape, Answer
<1>5. Shape'
  BY <1>0, <1>1, <1>3, <1>4 DEF Shape
<1>6. Owned'
  <2>1. runs[r].socket \in 1 .. Len(creds)
    BY DEF Owned, RunsOwn
  <2>2. Fresh(disk)'
    BY <1>1, <1>3, <2>1 DEF Owned, SocketsOwn, Fresh
  <2>3. SocketsOwn'
    <3> SUFFICES ASSUME NEW h \in 1 .. Len(creds)
                 PROVE  /\ Fresh(creds[h])' /\ key[h] \in 0 .. Len(runs) + 1
                        /\ pend[h] \in 0 .. Len(runs) /\ (pend[h] # 0 => runs'[pend[h]].socket = h)
                        /\ armed[h] \in 0 .. Len(runs) /\ (h # cur => armed[h] = 0)
      BY <1>1, <1>3 DEF SocketsOwn
    <3>1. /\ Fresh(creds[h]) /\ key[h] \in 0 .. Len(runs) + 1
          /\ pend[h] \in 0 .. Len(runs) /\ (pend[h] # 0 => runs[pend[h]].socket = h)
          /\ armed[h] \in 0 .. Len(runs) /\ (h # cur => armed[h] = 0)
      BY DEF Owned, SocketsOwn
    <3>2. pend[h] # 0 => pend[h] \in 1 .. Len(runs)
      BY <1>0, <3>1
    <3>3. QED
      BY <1>1, <1>3, <3>1, <3>2 DEF Fresh
  <2>4. RunsOwn'
    BY <1>1, <1>3 DEF Owned, RunsOwn
  <2>5. ContsOwn'
    BY <1>1, <1>3 DEF Owned, ContsOwn
  <2>6. QED
    BY <2>2, <2>3, <2>4, <2>5 DEF Owned
<1>7. Gone'
  <2>1. creds[runs[r].socket] > runs[r].old
    BY <1>1 DEF Gone
  <2>2. \A q \in 1 .. Len(runs) : runs'[q].step = "saving" =>
          creds'[runs'[q].socket] > runs'[q].old
    BY <1>1, <1>2, <1>3 DEF Gone
  <2>3. ASSUME \A q \in 1 .. Len(runs) : ~runs'[q].overtaken, NEW q \in 1 .. Len(runs)
        PROVE  /\ runs'[q].asked => disk' # runs'[q].old /\ creds'[Len(creds')] # runs'[q].old
               /\ runs'[q].step = "saving" => runs'[q].socket = Len(creds')
    <3>1. \A p \in 1 .. Len(runs) : ~runs[p].overtaken
      BY <1>3, <2>3
    <3>2. /\ runs[q].asked => disk # runs[q].old /\ creds[Len(creds)] # runs[q].old
          /\ runs[q].step = "saving" => runs[q].socket = Len(creds)
      BY <3>1 DEF Gone
    <3>3. runs[r].socket = Len(creds) /\ disk' = creds[Len(creds)] /\ creds' = creds
      BY <1>1, <3>1 DEF Gone
    <3>4. CASE q = r
      <4>1. creds[Len(creds)] # runs[r].old
        <5>1. runs[r].old \in Nat /\ creds[Len(creds)] > runs[r].old
          <6>1. runs[r].old \in 1 .. r
            BY DEF Owned, RunsOwn
          <6>2. QED
            BY <1>0, <2>1, <3>3, <6>1
        <5>2. creds[Len(creds)] \in Nat
          <6>1. runs[r].socket \in 1 .. Len(creds)
            BY DEF Owned, RunsOwn
          <6>2. QED
            BY <3>3, <6>1, Entries
        <5>3. QED
          BY <5>1, <5>2
      <4>2. QED
        BY <1>2, <1>3, <3>3, <3>4, <4>1
    <3>5. CASE q # r
      <4>1. runs'[q] = runs[q]
        BY <1>3, <3>5
      <4>2. QED
        BY <3>2, <3>3, <4>1
    <3>6. QED
      BY <3>4, <3>5
  <2>4. QED
    BY <1>1, <1>3, <2>2, <2>3 DEF Gone
<1>8. Own'
  BY <1>1, <1>2, <1>3 DEF Own, Live, Continues, Working
<1>9. QED
  BY <1>5, <1>6, <1>7, <1>8
-----------------------------------------------------------------------------
(* What the refused challenge leaves is a challenge's state. *)
LEMMA RefusedIsTyped == Shape => Refused \in [1 .. Len(runs) -> Answer]
BY DEF Shape, Refused, Answer

(* Steps in which no prologue moves. *)
LEMMA QuietStep ==
  ASSUME SecretInv,
         \/ Destroy \/ CredsUpdate \/ UNCHANGED vars
         \/ \E r \in 1 .. Len(runs) : SignerAnswers(r) \/ \E how \in {"answered", "refused"} : Settles(r, how)
         \/ \E i \in 1 .. Len(conts) : ContinuationRejected(i)
  PROVE  SecretInv'
<1> USE DEF SecretInv
<1>0. /\ Len(creds) \in Nat /\ Len(runs) \in Nat /\ cur \in {0, Len(creds)} /\ stale \in BOOLEAN
      /\ key \in [1 .. Len(creds) -> Nat] /\ pend \in [1 .. Len(creds) -> Nat]
      /\ armed \in [1 .. Len(creds) -> Nat] /\ waiting \in [1 .. Len(runs) -> Answer]
      /\ pendingPasskey \in 0 .. Len(runs) /\ conts \in Seq(Cont)
      /\ \A h \in 1 .. Len(creds) : h # cur => armed[h] = 0
  BY Entries DEF Shape, Owned, SocketsOwn
<1>1. CASE Destroy
  <2>1. /\ UNCHANGED <<signer, creds, disk, runs, stale, conts>>
        /\ cur # 0 /\ cur' = 0 /\ pendingPasskey' = 0 /\ waiting' = Refused
        /\ key' = [key EXCEPT ![cur] = 0] /\ pend' = [pend EXCEPT ![cur] = 0]
        /\ armed' = [armed EXCEPT ![cur] = 0]
    BY <1>1 DEF Destroy, Disposed
  <2>2. waiting' \in [1 .. Len(runs) -> Answer]
    BY <2>1, RefusedIsTyped
  <2>3. /\ key' \in [1 .. Len(creds) -> Nat] /\ pend' \in [1 .. Len(creds) -> Nat]
        /\ armed' \in [1 .. Len(creds) -> Nat]
        /\ \A h \in 1 .. Len(creds) :
             /\ key'[h] \in {0, key[h]} /\ pend'[h] \in {0, pend[h]}
             /\ armed'[h] \in {0, armed[h]} /\ (h # cur' => armed'[h] = 0)
    BY <1>0, <2>1
  <2>4. QED
    BY <1>0, <2>1, <2>2, <2>3, NoRunKeeps
<1>2. CASE CredsUpdate
  <2>1. /\ UNCHANGED <<signer, cur, creds, runs, stale, conts, key, pend, armed, waiting, pendingPasskey>>
        /\ cur # 0 /\ disk' = creds[cur]
    BY <1>2 DEF CredsUpdate, hands
  <2>2. QED
    BY <1>0, <2>1, NoRunKeeps
<1>3. CASE UNCHANGED vars
  <2>1. UNCHANGED <<signer, cur, creds, disk, runs, stale, conts, key, pend, armed, waiting, pendingPasskey>>
    BY <1>3 DEF vars, hands
  <2>2. QED
    BY <1>0, <2>1, NoRunKeeps
<1>4. ASSUME NEW r \in 1 .. Len(runs), SignerAnswers(r) \/ \E how \in {"answered", "refused"} : Settles(r, how)
      PROVE  SecretInv'
  <2>1. PICK how \in Answer : waiting' = [waiting EXCEPT ![r] = how]
    <3>1. CASE SignerAnswers(r)
      BY <3>1 DEF SignerAnswers, Answer
    <3>2. ASSUME NEW how \in {"answered", "refused"}, Settles(r, how)
          PROVE  \E h \in Answer : waiting' = [waiting EXCEPT ![r] = h]
      <4>1. waiting' = [waiting EXCEPT ![r] = IF waiting[r] = "waiting" THEN how ELSE waiting[r]]
        BY <3>2 DEF Settles
      <4>2. (IF waiting[r] = "waiting" THEN how ELSE waiting[r]) \in Answer
        BY <1>0 DEF Answer
      <4>3. QED
        BY <4>1, <4>2
    <3>3. QED
      BY <1>4, <3>1, <3>2
  <2>2. /\ UNCHANGED <<signer, cur, creds, disk, runs, conts, key, pend, armed>>
        /\ stale' \in BOOLEAN /\ pendingPasskey' \in {0, pendingPasskey}
    BY <1>0, <1>4 DEF SignerAnswers, Settles, hands
  <2>3. waiting' \in [1 .. Len(runs) -> Answer] /\ pendingPasskey' \in 0 .. Len(runs)
    BY <1>0, <2>1, <2>2
  <2>4. QED
    BY <1>0, <2>2, <2>3, NoRunKeeps
<1>5. ASSUME NEW i \in 1 .. Len(conts), ContinuationRejected(i) PROVE SecretInv'
  <2> DEFINE c == [conts[i] EXCEPT !.step = "failed"]
  <2>1. /\ UNCHANGED <<signer, cur, creds, disk, runs, stale, key, pend, armed, waiting, pendingPasskey>>
        /\ conts' = [conts EXCEPT ![i] = c]
    BY <1>5 DEF ContinuationRejected, hands
  <2>2. c \in Cont /\ c.run = conts[i].run /\ c.socket = conts[i].socket /\ c.step = "failed"
    BY Entries DEF Cont
  <2> HIDE DEF c
  <2>3. /\ conts' \in Seq(Cont) /\ Len(conts') = Len(conts) /\ conts'[i] = c
        /\ \A j \in 1 .. Len(conts) : j # i => conts'[j] = conts[j]
    BY <1>0, <2>1, <2>2, EntryReplaced
  <2>4. \A j \in 1 .. Len(conts) :
          /\ conts'[j].run = conts[j].run /\ conts'[j].socket = conts[j].socket
          /\ conts'[j].step \in {"nonce", "request"} => conts[j].step \in {"nonce", "request"}
    BY <2>2, <2>3
  <2>5. QED
    BY <1>0, <2>1, <2>3, <2>4, NoRunKeeps
<1>6. QED
  BY <1>1, <1>2, <1>3, <1>4, <1>5

(* Steps of one prologue, from its signature to the end of its continuation. *)
LEMMA PrologueStep ==
  ASSUME SecretInv, NEW r \in 1 .. Len(runs),
         \/ CredsNotWritten(r) \/ Signed(r) \/ NotSigned(r) \/ RefFetched(r)
         \/ PrologueAnswered(r) \/ QueryRejected(r)
  PROVE  SecretInv'
<1> USE DEF SecretInv
<1>0. /\ Len(creds) \in Nat /\ Len(runs) \in Nat /\ cur \in {0, Len(creds)}
      /\ key \in [1 .. Len(creds) -> Nat] /\ pend \in [1 .. Len(creds) -> Nat]
      /\ armed \in [1 .. Len(creds) -> Nat] /\ waiting \in [1 .. Len(runs) -> Answer]
      /\ pendingPasskey \in 0 .. Len(runs) /\ conts \in Seq(Cont)
      /\ runs[r] \in Run /\ runs[r].socket \in 1 .. Len(creds)
      /\ ~runs[r].overlapped => runs[r].proof \in {0, runs[r].old} /\ runs[r].carried \in {0, runs[r].new}
      /\ "failed" \in Steps /\ "fetching" \in Steps /\ "sent" \in Steps /\ "querying" \in Steps
  BY Entries DEF Shape, Owned, RunsOwn, Own, Steps, Working
<1>c. \A i \in 1 .. Len(conts) :
        /\ conts[i].run \in 1 .. Len(runs) /\ runs[conts[i].run].socket = conts[i].socket
        /\ conts[i].step \in {"nonce", "request"} => Live(conts[i].run)
  BY ContsStand
<1>1. UNCHANGED <<signer, cur, creds, disk, key, waiting, pendingPasskey, stale, conts>>
  BY DEF CredsNotWritten, Signed, NotSigned, RefFetched, PrologueAnswered, QueryRejected, hands
<1>2. CASE CredsNotWritten(r) \/ NotSigned(r) \/ QueryRejected(r)
  <2> DEFINE e == [runs[r] EXCEPT !.step = "failed", !.told = @ + 1]
  <2>1. runs' = [runs EXCEPT ![r] = e] /\ pend' = pend /\ armed' = armed
    BY <1>2 DEF CredsNotWritten, NotSigned, QueryRejected, Fail, Tell, hands
  <2>2. /\ e \in Run /\ e.socket = runs[r].socket /\ e.old = runs[r].old /\ e.new = runs[r].new
        /\ e.overlapped = runs[r].overlapped /\ e.overtaken = runs[r].overtaken
        /\ e.asked = runs[r].asked /\ e.proof = runs[r].proof /\ e.carried = runs[r].carried
        /\ e.step = "failed"
    BY <1>0, EntryOf, Zenon DEF Run
  <2> HIDE DEF e
  <2>3. QED
    BY <1>0, <1>1, <2>1, <2>2, <1>c, OneRunKeeps DEF Working
<1>3. CASE Signed(r)
  <2> DEFINE e == [runs[r] EXCEPT !.step = "fetching"]
  <2>1. runs' = [runs EXCEPT ![r] = e] /\ pend' = pend /\ armed' = armed /\ runs[r].step = "signing"
    BY <1>3 DEF Signed, hands
  <2>2. /\ e \in Run /\ e.socket = runs[r].socket /\ e.old = runs[r].old /\ e.new = runs[r].new
        /\ e.overlapped = runs[r].overlapped /\ e.overtaken = runs[r].overtaken
        /\ e.asked = runs[r].asked /\ e.proof = runs[r].proof /\ e.carried = runs[r].carried
        /\ e.step = "fetching"
    <3>1. e \in Run
      BY <1>0, EntryOf, Zenon
    <3>2. QED
      BY <1>0, <3>1 DEF Run
  <2> HIDE DEF e
  <2>3. QED
    BY <1>0, <1>1, <2>1, <2>2, <1>c, OneRunKeeps DEF Working
<1>4. CASE PrologueAnswered(r)
  <2> DEFINE e == [runs[r] EXCEPT !.step = "sent"]
  <2>1. /\ runs' = [runs EXCEPT ![r] = e] /\ pend' = pend /\ armed' = [armed EXCEPT ![runs[r].socket] = r]
        /\ runs[r].step = "querying" /\ runs[r].socket = cur
    BY <1>4 DEF PrologueAnswered
  <2>2. /\ e \in Run /\ e.socket = runs[r].socket /\ e.old = runs[r].old /\ e.new = runs[r].new
        /\ e.overlapped = runs[r].overlapped /\ e.overtaken = runs[r].overtaken
        /\ e.asked = runs[r].asked /\ e.proof = runs[r].proof /\ e.carried = runs[r].carried
        /\ e.step = "sent"
    <3>1. e \in Run
      BY <1>0, EntryOf, Zenon
    <3>2. QED
      BY <1>0, <3>1 DEF Run
  <2>3. /\ armed' \in [1 .. Len(creds) -> Nat]
        /\ \A h \in 1 .. Len(creds) : \/ armed'[h] \in {0, armed[h]}
                                      \/ h = cur /\ armed'[h] = r
    BY <1>0, <2>1
  <2> HIDE DEF e
  <2>4. QED
    BY <1>0, <1>1, <2>1, <2>2, <2>3, <1>c, OneRunKeeps DEF Working
<1>5. CASE RefFetched(r)
  <2> DEFINE h == runs[r].socket
             failed == [runs[r] EXCEPT !.step = "failed", !.told = @ + 1]
             sent   == [runs[r] EXCEPT !.step = "querying", !.proof = key[h]]
  <2>1. /\ runs[r].step = "fetching" /\ pend' = [pend EXCEPT ![h] = r] /\ armed' = armed
        /\ \/ runs' = [runs EXCEPT ![r] = failed]
           \/ key[h] \in Nat /\ runs' = [runs EXCEPT ![r] = sent]
    <3>1. /\ runs[r].step = "fetching" /\ pend' = [pend EXCEPT ![h] = r] /\ armed' = armed
          /\ IF key[h] = 0 THEN Fail(r)
             ELSE runs' = [runs EXCEPT ![r].step = "querying", ![r].proof = key[h]]
      BY <1>5 DEF RefFetched
    <3>2. CASE key[h] = 0
      BY <3>1, <3>2 DEF Fail, Tell
    <3>3. CASE key[h] # 0
      <4>1. key[h] \in Nat
        BY <1>0
      <4>2. [runs EXCEPT ![r].step = "querying", ![r].proof = key[h]] = [runs EXCEPT ![r] = sent]
        BY <4>1, EntryOf, Zenon
      <4>3. QED
        BY <3>1, <3>3, <4>1, <4>2
    <3>4. QED
      BY <3>2, <3>3
  <2>2. PICK e \in Run :
          /\ runs' = [runs EXCEPT ![r] = e]
          /\ e.socket = runs[r].socket /\ e.old = runs[r].old /\ e.new = runs[r].new
          /\ e.overlapped = runs[r].overlapped /\ e.overtaken = runs[r].overtaken
          /\ e.asked = runs[r].asked /\ e.carried = runs[r].carried
          /\ e.step \in {"failed", "querying"} /\ e.proof \in {runs[r].proof, key[h]}
    <3>1. /\ failed \in Run /\ failed.socket = runs[r].socket /\ failed.old = runs[r].old
          /\ failed.new = runs[r].new
          /\ failed.overlapped = runs[r].overlapped /\ failed.overtaken = runs[r].overtaken
          /\ failed.asked = runs[r].asked /\ failed.carried = runs[r].carried
          /\ failed.step = "failed" /\ failed.proof = runs[r].proof
      BY <1>0, EntryOf, Zenon DEF Run
    <3>2. key[h] \in Nat
      BY <1>0
    <3>3. /\ sent \in Run /\ sent.socket = runs[r].socket /\ sent.old = runs[r].old
          /\ sent.new = runs[r].new
          /\ sent.overlapped = runs[r].overlapped /\ sent.overtaken = runs[r].overtaken
          /\ sent.asked = runs[r].asked /\ sent.carried = runs[r].carried
          /\ sent.step = "querying" /\ sent.proof = key[h]
      BY <1>0, <3>2, EntryOf, Zenon DEF Run
    <3> HIDE DEF failed, sent
    <3>4. QED
      BY <2>1, <3>1, <3>3
  <2>3. ~runs[r].overlapped => e.proof \in {0, runs[r].old}
    BY <1>0, <2>1, <2>2 DEF Own
  <2>4. /\ pend' \in [1 .. Len(creds) -> Nat]
        /\ \A g \in 1 .. Len(creds) :
             \/ pend'[g] \in {0, pend[g]}
             \/ g = runs[r].socket /\ pend'[g] = r /\ runs[r].step \in Working
    BY <1>0, <2>1 DEF Working
  <2>5. QED
    BY <1>0, <1>1, <2>1, <2>2, <2>3, <2>4, <1>c, OneRunKeeps DEF Working
<1>6. QED
  BY <1>2, <1>3, <1>4, <1>5

(* The timer of a prologue, and the steps of a continuation. *)
LEMMA ContinuationStep ==
  ASSUME SecretInv,
         \/ \E h \in 1 .. Len(creds) : ContinuationTimesOut(h)
         \/ \E i \in 1 .. Len(conts) : NonceSent(i) \/ RequestSent(i)
         \/ Continuation
  PROVE  SecretInv'
<1> USE DEF SecretInv
<1>0. /\ Len(creds) \in Nat /\ Len(runs) \in Nat /\ Len(conts) \in Nat /\ cur \in {0, Len(creds)}
      /\ key \in [1 .. Len(creds) -> Nat] /\ pend \in [1 .. Len(creds) -> Nat]
      /\ armed \in [1 .. Len(creds) -> Nat] /\ waiting \in [1 .. Len(runs) -> Answer]
      /\ pendingPasskey \in 0 .. Len(runs) /\ conts \in Seq(Cont)
      /\ \A r \in 1 .. Len(runs) : runs[r] \in Run
      /\ \A r \in 1 .. Len(runs) : ~runs[r].overlapped =>
           /\ runs[r].proof \in {0, runs[r].old} /\ runs[r].carried \in {0, runs[r].new}
           /\ Live(r) => creds[runs[r].socket] = runs[r].new
      /\ \A h \in 1 .. Len(creds) :
           /\ creds[h] \in Nat /\ armed[h] \in 0 .. Len(runs) /\ pend[h] \in 0 .. Len(runs)
           /\ pend[h] # 0 => runs[pend[h]].socket = h
  BY Entries DEF Shape, Owned, SocketsOwn, Own
<1>c. \A i \in 1 .. Len(conts) :
        /\ conts[i].run \in 1 .. Len(runs) /\ runs[conts[i].run].socket = conts[i].socket
        /\ conts[i].step \in {"nonce", "request"} => Live(conts[i].run)
  BY ContsStand
<1>t. \A r \in 1 .. Len(runs), e \in Run :
        e = [runs[r] EXCEPT !.told = @ + 1] =>
          /\ e.socket = runs[r].socket /\ e.old = runs[r].old /\ e.new = runs[r].new
          /\ e.overlapped = runs[r].overlapped /\ e.overtaken = runs[r].overtaken
          /\ e.asked = runs[r].asked /\ e.proof = runs[r].proof /\ e.carried = runs[r].carried
          /\ e.step = runs[r].step
  BY <1>0 DEF Run
<1>1. ASSUME NEW h \in 1 .. Len(creds), ContinuationTimesOut(h) PROVE SecretInv'
  <2> DEFINE r == armed[h]
             e == [runs[r] EXCEPT !.told = @ + 1]
  <2>1. /\ armed' = [armed EXCEPT ![h] = 0] /\ runs' = [runs EXCEPT ![r] = e]
        /\ UNCHANGED <<signer, cur, creds, disk, key, pend, waiting, pendingPasskey, stale, conts>>
        /\ r \in 1 .. Len(runs)
    BY <1>0, <1>1 DEF ContinuationTimesOut, Tell
  <2>2. e \in Run
    BY <2>1, EntryOf, Zenon
  <2>3. /\ e.socket = runs[r].socket /\ e.old = runs[r].old /\ e.new = runs[r].new
        /\ e.overlapped = runs[r].overlapped /\ e.overtaken = runs[r].overtaken
        /\ e.asked = runs[r].asked /\ e.proof = runs[r].proof /\ e.carried = runs[r].carried
        /\ e.step = runs[r].step
    BY <1>t, <2>1, <2>2
  <2>4. /\ armed' \in [1 .. Len(creds) -> Nat]
        /\ \A g \in 1 .. Len(creds) : armed'[g] \in {0, armed[g]}
    BY <1>0, <2>1
  <2> HIDE DEF e, r
  <2>5. QED
    BY <1>0, <1>c, <2>1, <2>2, <2>3, <2>4, OneRunKeeps
<1>2. ASSUME NEW i \in 1 .. Len(conts), NonceSent(i) PROVE SecretInv'
  <2> DEFINE r == conts[i].run
             e == [runs[r] EXCEPT !.carried = creds[cur]]
             c == [conts[i] EXCEPT !.step = "request"]
  <2>1. /\ UNCHANGED <<signer, cur, creds, disk, key, pend, armed, waiting, pendingPasskey, stale>>
        /\ conts[i].step = "nonce" /\ cur = conts[i].socket /\ conts' = [conts EXCEPT ![i] = c]
        /\ runs' = [runs EXCEPT ![r].carried = creds[cur]]
    BY <1>2 DEF NonceSent, hands
  <2>2. /\ r \in 1 .. Len(runs) /\ runs[r].socket = cur /\ Live(r) /\ creds[cur] \in Nat
    BY <1>0, <1>c, <2>1 DEF Owned, RunsOwn
  <2>3. e \in Run /\ runs' = [runs EXCEPT ![r] = e]
    BY <2>1, <2>2, EntryOf, Zenon
  <2>u. UNCHANGED <<signer, cur, creds, disk, key, pend, armed, waiting, pendingPasskey, stale>>
    BY <2>1
  <2>4. /\ e.socket = runs[r].socket /\ e.old = runs[r].old /\ e.new = runs[r].new
        /\ e.overlapped = runs[r].overlapped /\ e.overtaken = runs[r].overtaken
        /\ e.asked = runs[r].asked /\ e.proof = runs[r].proof /\ e.carried = creds[cur]
        /\ e.step = runs[r].step
    BY <1>0, <2>2, <2>3 DEF Run
  <2>5. ~runs[r].overlapped => e.proof \in {0, runs[r].old} /\ e.carried \in {0, runs[r].new}
    BY <1>0, <2>2, <2>4
  <2>6. /\ conts' \in Seq(Cont)
        /\ \A j \in 1 .. Len(conts') :
             /\ conts'[j].run \in 1 .. Len(runs) /\ runs[conts'[j].run].socket = conts'[j].socket
             /\ conts'[j].step \in {"nonce", "request"} => Live(conts'[j].run)
    <3>1. c \in Cont /\ c.run = r /\ c.socket = conts[i].socket
      BY Entries DEF Cont
    <3> HIDE DEF c
    <3>2. /\ conts' \in Seq(Cont) /\ Len(conts') = Len(conts) /\ conts'[i] = c
          /\ \A j \in 1 .. Len(conts) : j # i => conts'[j] = conts[j]
      BY <1>0, <2>1, <3>1, EntryReplaced
    <3>3. QED
      BY <1>c, <2>2, <3>1, <3>2
  <2> HIDE DEF e, r
  <2>v. r \in 1 .. Len(runs)
    BY <2>2
  <2>7. QED
    BY <1>0, <2>u, <2>v, <2>3, <2>4, <2>5, <2>6, OneRunKeeps
<1>3. ASSUME NEW i \in 1 .. Len(conts), RequestSent(i) PROVE SecretInv'
  <2> DEFINE r == conts[i].run
             e == [runs[r] EXCEPT !.told = @ + 1]
             c == [conts[i] EXCEPT !.step = "done"]
  <2>1. /\ UNCHANGED <<signer, cur, creds, disk, armed, waiting, pendingPasskey, stale>>
        /\ conts[i].step = "request" /\ cur = conts[i].socket /\ conts' = [conts EXCEPT ![i] = c]
        /\ runs' = [runs EXCEPT ![r] = e]
        /\ pend' = [pend EXCEPT ![cur] = 0] /\ key' = [key EXCEPT ![cur] = 0]
    BY <1>3 DEF RequestSent, Tell
  <2>2. r \in 1 .. Len(runs)
    BY <1>c
  <2>3. e \in Run
    BY <2>2, EntryOf, Zenon
  <2>4. /\ e.socket = runs[r].socket /\ e.old = runs[r].old /\ e.new = runs[r].new
        /\ e.overlapped = runs[r].overlapped /\ e.overtaken = runs[r].overtaken
        /\ e.asked = runs[r].asked /\ e.proof = runs[r].proof /\ e.carried = runs[r].carried
        /\ e.step = runs[r].step
    BY <1>t, <2>2, <2>3
  <2>5. /\ pend' \in [1 .. Len(creds) -> Nat] /\ key' \in [1 .. Len(creds) -> Nat]
        /\ \A g \in 1 .. Len(creds) : key'[g] \in {0, key[g]} /\ pend'[g] \in {0, pend[g]}
    BY <1>0, <2>1
  <2>6. /\ conts' \in Seq(Cont)
        /\ \A j \in 1 .. Len(conts') :
             /\ conts'[j].run \in 1 .. Len(runs) /\ runs[conts'[j].run].socket = conts'[j].socket
             /\ conts'[j].step \in {"nonce", "request"} => Live(conts'[j].run)
    <3>1. c \in Cont /\ c.run = r /\ c.socket = conts[i].socket /\ c.step = "done"
      BY Entries DEF Cont
    <3> HIDE DEF c
    <3>2. /\ conts' \in Seq(Cont) /\ Len(conts') = Len(conts) /\ conts'[i] = c
          /\ \A j \in 1 .. Len(conts) : j # i => conts'[j] = conts[j]
      BY <1>0, <2>1, <3>1, EntryReplaced
    <3>3. QED
      BY <1>c, <2>2, <3>1, <3>2
  <2> HIDE DEF e, r
  <2>7. QED
    BY <1>0, <2>1, <2>2, <2>3, <2>4, <2>5, <2>6, OneRunKeeps
<1>4. CASE Continuation
  <2>1. /\ UNCHANGED <<signer, cur, creds, disk, key, pend, waiting, pendingPasskey, stale>>
        /\ cur # 0 /\ cur \in 1 .. Len(creds) /\ armed' = [armed EXCEPT ![cur] = 0]
    BY <1>0, <1>4 DEF Continuation, Begins
  <2>2. /\ armed' \in [1 .. Len(creds) -> Nat]
        /\ \A g \in 1 .. Len(creds) : armed'[g] \in {0, armed[g]} /\ (g # cur => armed'[g] = 0)
    BY <1>0, <2>1 DEF Owned, SocketsOwn
  <2>3. CASE pend[cur] = 0
    <3>1. UNCHANGED <<runs, conts>>
      BY <1>4, <2>3 DEF Continuation, Begins
    <3>2. stale \in BOOLEAN
      BY DEF Shape
    <3>3. QED
      BY <1>0, <2>1, <2>2, <3>1, <3>2, NoRunKeeps
  <2>4. CASE pend[cur] # 0
    <3> DEFINE r == pend[cur]
               b == runs[r].untimely \/ Untimely(r)
               e == [runs[r] EXCEPT !.untimely = b]
    <3>1. /\ \E step \in {"nonce", "failed"} :
               conts' = Append(conts, [socket |-> cur, run |-> r, step |-> step])
          /\ runs' = [runs EXCEPT ![r] = e]
      BY <1>4, <2>4 DEF Continuation, Begins
    <3>2. r \in 1 .. Len(runs) /\ runs[r].socket = cur /\ Live(r)
      BY <1>0, <2>1, <2>4 DEF Live
    <3>3. e \in Run
      <4>1. b \in BOOLEAN
        OBVIOUS
      <4> HIDE DEF b
      <4>2. runs[r] \in Run
        BY <1>0, <3>2
      <4>3. QED
        BY <4>1, <4>2 DEF Run
    <3>4. /\ e.socket = runs[r].socket /\ e.old = runs[r].old /\ e.new = runs[r].new
          /\ e.overlapped = runs[r].overlapped /\ e.overtaken = runs[r].overtaken
          /\ e.asked = runs[r].asked /\ e.proof = runs[r].proof /\ e.carried = runs[r].carried
          /\ e.step = runs[r].step
      <4> HIDE DEF b
      <4>1. QED
        BY <1>0, <3>2 DEF Run
    <3>5. /\ conts' \in Seq(Cont)
          /\ \A j \in 1 .. Len(conts') :
               /\ conts'[j].run \in 1 .. Len(runs) /\ runs[conts'[j].run].socket = conts'[j].socket
               /\ conts'[j].step \in {"nonce", "request"} => Live(conts'[j].run)
      <4>1. PICK c \in Cont : conts' = Append(conts, c) /\ c.run = r /\ c.socket = cur
        <5>1. PICK step \in {"nonce", "failed"} :
                conts' = Append(conts, [socket |-> cur, run |-> r, step |-> step])
          BY <3>1
        <5>2. [socket |-> cur, run |-> r, step |-> step] \in Cont
          BY <1>0, <2>1, <3>2 DEF Cont
        <5>3. QED
          BY <5>1, <5>2
      <4>2. /\ conts' \in Seq(Cont) /\ Len(conts') = Len(conts) + 1 /\ conts'[Len(conts) + 1] = c
            /\ \A j \in 1 .. Len(conts) : conts'[j] = conts[j]
        BY <1>0, <4>1, EntryAdded
      <4>3. \A j \in 1 .. Len(conts') : j = Len(conts) + 1 \/ j \in 1 .. Len(conts)
        <5>1. Len(conts) \in Nat
          BY <1>0
        <5>2. QED
          BY <4>2, <5>1
      <4>4. QED
        BY <1>c, <3>2, <4>1, <4>2, <4>3
    <3> HIDE DEF e, r
    <3>6. /\ UNCHANGED <<signer, creds, cur, disk, stale>> /\ r \in 1 .. Len(runs)
          /\ runs' = [runs EXCEPT ![r] = e]
          /\ key' \in [1 .. Len(creds) -> Nat] /\ pend' \in [1 .. Len(creds) -> Nat]
          /\ waiting' \in [1 .. Len(runs) -> Answer] /\ pendingPasskey' \in 0 .. Len(runs)
      BY <1>0, <2>1, <3>1, <3>2
    <3>7. ~runs[r].overlapped => e.proof \in {0, runs[r].old} /\ e.carried \in {0, runs[r].new}
      BY <1>0, <3>2, <3>4
    <3>8. /\ armed' \in [1 .. Len(creds) -> Nat]
          /\ \A h \in 1 .. Len(creds) :
               key'[h] \in {0, key[h]} /\ pend'[h] \in {0, pend[h]} /\ armed'[h] \in {0, armed[h]}
      BY <2>1, <2>2
    <3>9. QED
      BY <3>3, <3>4, <3>5, <3>6, <3>7, <3>8, OneRunKeeps
  <2>5. QED
    BY <2>3, <2>4
<1>5. QED
  BY <1>1, <1>2, <1>3, <1>4
-----------------------------------------------------------------------------
(* A function on the first n numbers is a sequence of n entries. *)
LEMMA FunctionIsSeq ==
  ASSUME NEW S, NEW n \in Nat, NEW f \in [1 .. n -> S]
  PROVE  f \in Seq(S) /\ Len(f) = n
<1>1. f \in Seq(S)
  BY SeqDef
<1>2. DOMAIN f = 1 .. Len(f) /\ Len(f) \in Nat
  BY <1>1, LenProperties
<1>3. QED
  BY <1>1, <1>2

(* What an entry added to a socket's numbers makes of them. *)
LEMMA SocketAdded ==
  ASSUME NEW n \in Nat, NEW f \in [1 .. n -> Nat], NEW v \in Nat
  PROVE  /\ Append(f, v) \in [1 .. n + 1 -> Nat] /\ Append(f, v)[n + 1] = v
         /\ \A h \in 1 .. n : Append(f, v)[h] = f[h]
<1>1. f \in Seq(Nat) /\ Len(f) = n
  BY FunctionIsSeq
<1>2. /\ Append(f, v) \in Seq(Nat) /\ Len(Append(f, v)) = n + 1 /\ Append(f, v)[n + 1] = v
      /\ \A h \in 1 .. n : Append(f, v)[h] = f[h]
  BY <1>1, EntryAdded
<1>3. Append(f, v) \in [1 .. n + 1 -> Nat]
  BY <1>2, LenProperties, ElementOfSeq
<1>4. QED
  BY <1>2, <1>3

(* What a new socket makes of the sockets and prologues there were. *)
LEMMA SocketMade ==
  ASSUME SecretInv, Initialize
  PROVE  /\ key' \in [1 .. Len(creds) + 1 -> Nat] /\ pend' \in [1 .. Len(creds) + 1 -> Nat]
         /\ armed' \in [1 .. Len(creds) + 1 -> Nat]
         /\ key'[Len(creds) + 1] = 0 /\ pend'[Len(creds) + 1] = 0 /\ armed'[Len(creds) + 1] = 0
         /\ \A h \in 1 .. Len(creds) :
              /\ key'[h] \in {0, key[h]} /\ pend'[h] \in {0, pend[h]}
              /\ armed'[h] \in {0, armed[h]} /\ (h = cur => armed'[h] = 0)
         /\ runs' \in Seq(Run) /\ Len(runs') = Len(runs)
         /\ \A r \in 1 .. Len(runs) :
              /\ runs'[r].socket = runs[r].socket /\ runs'[r].step = runs[r].step
              /\ runs'[r].old = runs[r].old /\ runs'[r].new = runs[r].new
              /\ runs'[r].proof = runs[r].proof /\ runs'[r].carried = runs[r].carried
              /\ runs'[r].asked = runs[r].asked /\ runs'[r].overlapped = runs[r].overlapped
              /\ runs'[r].told = runs[r].told /\ runs'[r].untimely = runs[r].untimely
              /\ ~runs'[r].overtaken => ~runs[r].overtaken /\ runs[r].step # "saving"
<1> USE DEF SecretInv
<1>0. /\ Len(creds) \in Nat /\ Len(runs) \in Nat /\ Len(conts) \in Nat /\ cur \in {0, Len(creds)}
      /\ key \in [1 .. Len(creds) -> Nat] /\ pend \in [1 .. Len(creds) -> Nat]
      /\ armed \in [1 .. Len(creds) -> Nat] /\ creds \in Seq(Nat)
      /\ DOMAIN runs = 1 .. Len(runs) /\ DOMAIN conts = 1 .. Len(conts)
      /\ \A r \in 1 .. Len(runs) : runs[r] \in Run /\ runs[r].socket \in 1 .. Len(creds)
      /\ disk \in Nat /\ disk \in 1 .. Len(runs) + 1
  BY Entries DEF Shape, Owned, RunsOwn, Fresh
<1> DEFINE n == Len(creds)
<1>1. /\ UNCHANGED <<signer, disk, stale, conts>> /\ cur' = n + 1 /\ creds' = Append(creds, disk)
      /\ key' = Append(Disposed(key), 0) /\ pend' = Append(Disposed(pend), 0)
      /\ armed' = Append(Disposed(armed), 0) /\ waiting' = Refused /\ pendingPasskey' = 0
      /\ runs' = [r \in DOMAIN runs |->
                   [runs[r] EXCEPT !.overtaken = runs[r].overtaken \/ runs[r].step = "saving"]]
      /\ n < MaxSockets
  BY DEF Initialize
<1>2. /\ creds' \in Seq(Nat) /\ Len(creds') = n + 1 /\ creds'[n + 1] = disk
      /\ \A h \in 1 .. n : creds'[h] = creds[h]
  BY <1>0, <1>1, EntryAdded
<1>3. \A f \in [1 .. n -> Nat] :
        /\ Disposed(f) \in [1 .. n -> Nat]
        /\ \A h \in 1 .. n : Disposed(f)[h] \in {0, f[h]} /\ (h = cur => Disposed(f)[h] = 0)
  BY <1>0 DEF Disposed
<1>4. \A f \in [1 .. n -> Nat] :
        /\ Append(Disposed(f), 0) \in [1 .. n + 1 -> Nat] /\ Append(Disposed(f), 0)[n + 1] = 0
        /\ \A h \in 1 .. n :
             Append(Disposed(f), 0)[h] \in {0, f[h]} /\ (h = cur => Append(Disposed(f), 0)[h] = 0)
  <2> SUFFICES ASSUME NEW f \in [1 .. n -> Nat]
               PROVE  /\ Append(Disposed(f), 0) \in [1 .. n + 1 -> Nat]
                      /\ Append(Disposed(f), 0)[n + 1] = 0
                      /\ \A h \in 1 .. n :
                           /\ Append(Disposed(f), 0)[h] \in {0, f[h]}
                           /\ h = cur => Append(Disposed(f), 0)[h] = 0
    OBVIOUS
  <2>1. /\ Append(Disposed(f), 0) \in [1 .. n + 1 -> Nat] /\ Append(Disposed(f), 0)[n + 1] = 0
        /\ \A h \in 1 .. n : Append(Disposed(f), 0)[h] = Disposed(f)[h]
    <3>1. Disposed(f) \in [1 .. n -> Nat] /\ n \in Nat
      BY <1>0, <1>3
    <3>2. ASSUME NEW m \in Nat, NEW g \in [1 .. m -> Nat]
          PROVE  /\ Append(g, 0) \in [1 .. m + 1 -> Nat] /\ Append(g, 0)[m + 1] = 0
                 /\ \A h \in 1 .. m : Append(g, 0)[h] = g[h]
      <4>1. 0 \in Nat
        OBVIOUS
      <4>2. QED
        BY <4>1, SocketAdded, Zenon
    <3> HIDE DEF n
    <3>3. QED
      BY <3>1, <3>2, Zenon
  <2>2. QED
    BY <1>3, <2>1
<1>5. /\ key' \in [1 .. n + 1 -> Nat] /\ pend' \in [1 .. n + 1 -> Nat] /\ armed' \in [1 .. n + 1 -> Nat]
      /\ key'[n + 1] = 0 /\ pend'[n + 1] = 0 /\ armed'[n + 1] = 0
      /\ \A h \in 1 .. n :
           /\ key'[h] \in {0, key[h]} /\ pend'[h] \in {0, pend[h]}
           /\ armed'[h] \in {0, armed[h]} /\ (h = cur => armed'[h] = 0)
  BY <1>0, <1>1, <1>4
<1>6. /\ runs' \in Seq(Run) /\ Len(runs') = Len(runs)
      /\ \A r \in 1 .. Len(runs) :
           /\ runs'[r].socket = runs[r].socket /\ runs'[r].step = runs[r].step
           /\ runs'[r].old = runs[r].old /\ runs'[r].new = runs[r].new
           /\ runs'[r].proof = runs[r].proof /\ runs'[r].carried = runs[r].carried
           /\ runs'[r].asked = runs[r].asked /\ runs'[r].overlapped = runs[r].overlapped
           /\ runs'[r].told = runs[r].told /\ runs'[r].untimely = runs[r].untimely
           /\ ~runs'[r].overtaken => ~runs[r].overtaken /\ runs[r].step # "saving"
  <2> DEFINE o(r) == runs[r].overtaken \/ runs[r].step = "saving"
             e(r) == [runs[r] EXCEPT !.overtaken = o(r)]
  <2>1. runs' = [r \in 1 .. Len(runs) |-> e(r)]
    BY <1>0, <1>1
  <2>2. \A r \in 1 .. Len(runs) :
          /\ e(r) \in Run /\ e(r).socket = runs[r].socket /\ e(r).step = runs[r].step
          /\ e(r).old = runs[r].old /\ e(r).new = runs[r].new
          /\ e(r).proof = runs[r].proof /\ e(r).carried = runs[r].carried
          /\ e(r).asked = runs[r].asked /\ e(r).overlapped = runs[r].overlapped
          /\ e(r).told = runs[r].told /\ e(r).untimely = runs[r].untimely
          /\ e(r).overtaken = o(r)
    <3>1. \A r \in 1 .. Len(runs) : o(r) \in BOOLEAN
      OBVIOUS
    <3> HIDE DEF o
    <3>2. QED
      BY <1>0, <3>1 DEF Run
  <2>3. \A r \in 1 .. Len(runs) : ~o(r) => ~runs[r].overtaken /\ runs[r].step # "saving"
    OBVIOUS
  <2> HIDE DEF o, e
  <2>4. runs' \in [1 .. Len(runs) -> Run] /\ \A r \in 1 .. Len(runs) : runs'[r] = e(r)
    BY <2>1, <2>2
  <2>5. runs' \in Seq(Run) /\ Len(runs') = Len(runs)
    BY <1>0, <2>4, FunctionIsSeq
  <2>6. QED
    BY <2>2, <2>3, <2>4, <2>5
<1>7. QED
  BY <1>5, <1>6

(* A socket is made, with the secret that is saved. *)
LEMMA InitializeKeeps == ASSUME SecretInv, Initialize PROVE SecretInv'
<1> USE DEF SecretInv
<1>0. /\ Len(creds) \in Nat /\ Len(runs) \in Nat /\ Len(conts) \in Nat /\ cur \in {0, Len(creds)}
      /\ key \in [1 .. Len(creds) -> Nat] /\ pend \in [1 .. Len(creds) -> Nat]
      /\ armed \in [1 .. Len(creds) -> Nat] /\ creds \in Seq(Nat)
      /\ DOMAIN runs = 1 .. Len(runs) /\ DOMAIN conts = 1 .. Len(conts)
      /\ \A r \in 1 .. Len(runs) : runs[r] \in Run /\ runs[r].socket \in 1 .. Len(creds)
      /\ disk \in Nat /\ disk \in 1 .. Len(runs) + 1
  BY Entries DEF Shape, Owned, RunsOwn, Fresh
<1> DEFINE n == Len(creds)
<1>1. /\ UNCHANGED <<signer, disk, stale, conts>> /\ cur' = n + 1 /\ creds' = Append(creds, disk)
      /\ key' = Append(Disposed(key), 0) /\ pend' = Append(Disposed(pend), 0)
      /\ armed' = Append(Disposed(armed), 0) /\ waiting' = Refused /\ pendingPasskey' = 0
      /\ runs' = [r \in DOMAIN runs |->
                   [runs[r] EXCEPT !.overtaken = runs[r].overtaken \/ runs[r].step = "saving"]]
      /\ n < MaxSockets
  BY DEF Initialize
<1>2. /\ creds' \in Seq(Nat) /\ Len(creds') = n + 1 /\ creds'[n + 1] = disk
      /\ \A h \in 1 .. n : creds'[h] = creds[h]
  BY <1>0, <1>1, EntryAdded
<1>5. /\ key' \in [1 .. n + 1 -> Nat] /\ pend' \in [1 .. n + 1 -> Nat] /\ armed' \in [1 .. n + 1 -> Nat]
      /\ key'[n + 1] = 0 /\ pend'[n + 1] = 0 /\ armed'[n + 1] = 0
      /\ \A h \in 1 .. n :
           /\ key'[h] \in {0, key[h]} /\ pend'[h] \in {0, pend[h]}
           /\ armed'[h] \in {0, armed[h]} /\ (h = cur => armed'[h] = 0)
  BY SocketMade
<1>6. /\ runs' \in Seq(Run) /\ Len(runs') = Len(runs)
      /\ \A r \in 1 .. Len(runs) :
           /\ runs'[r].socket = runs[r].socket /\ runs'[r].step = runs[r].step
           /\ runs'[r].old = runs[r].old /\ runs'[r].new = runs[r].new
           /\ runs'[r].proof = runs[r].proof /\ runs'[r].carried = runs[r].carried
           /\ runs'[r].asked = runs[r].asked /\ runs'[r].overlapped = runs[r].overlapped
           /\ runs'[r].told = runs[r].told /\ runs'[r].untimely = runs[r].untimely
           /\ ~runs'[r].overtaken => ~runs[r].overtaken /\ runs[r].step # "saving"
  BY SocketMade
<1>7. Shape'
  <2>1. waiting' \in [1 .. Len(runs) -> Answer]
    BY <1>1, RefusedIsTyped
  <2>2. Len(creds') <= MaxSockets
    <3>1. n + 1 <= MaxSockets
      BY <1>0, <1>1, PasskeyAssumption
    <3>2. QED
      BY <1>2, <3>1
  <2>3. cur' \in {0, Len(creds')} /\ pendingPasskey' \in 0 .. Len(runs')
    BY <1>0, <1>1, <1>2, <1>6
  <2>4. /\ signer' \in BOOLEAN /\ stale' \in BOOLEAN /\ conts' \in Seq(Cont)
        /\ Len(runs') <= MaxPrologues
    BY <1>1, <1>6 DEF Shape
  <2>5. /\ key' \in [1 .. Len(creds') -> Nat] /\ pend' \in [1 .. Len(creds') -> Nat]
        /\ armed' \in [1 .. Len(creds') -> Nat]
    BY <1>2, <1>5
  <2>6. waiting' \in [1 .. Len(runs') -> Answer]
    BY <1>6, <2>1
  <2>7. QED
    BY <1>2, <1>6, <2>2, <2>3, <2>4, <2>5, <2>6 DEF Shape
<1>8. Owned'
  <2>1. Fresh(disk)'
    BY <1>1, <1>6 DEF Owned, Fresh
  <2>2. SocketsOwn'
    <3> SUFFICES ASSUME NEW h \in 1 .. n + 1
                 PROVE  /\ creds'[h] \in 1 .. Len(runs) + 1 /\ key'[h] \in 0 .. Len(runs) + 1
                        /\ pend'[h] \in 0 .. Len(runs) /\ (pend'[h] # 0 => runs'[pend'[h]].socket = h)
                        /\ armed'[h] \in 0 .. Len(runs) /\ (h # cur' => armed'[h] = 0)
      BY <1>2, <1>6 DEF SocketsOwn, Fresh
    <3>1. CASE h = n + 1
      BY <1>0, <1>1, <1>2, <1>5, <3>1
    <3>2. CASE h # n + 1
      <4>1. h \in 1 .. n
        BY <1>0, <3>2
      <4>2. /\ creds[h] \in 1 .. Len(runs) + 1 /\ key[h] \in 0 .. Len(runs) + 1
            /\ pend[h] \in 0 .. Len(runs) /\ (pend[h] # 0 => runs[pend[h]].socket = h)
            /\ armed[h] \in 0 .. Len(runs) /\ (h # cur => armed[h] = 0)
        BY <4>1 DEF Owned, SocketsOwn, Fresh
      <4>3. pend'[h] # 0 => runs'[pend'[h]].socket = h
        <5>1. pend'[h] # 0 => pend'[h] = pend[h]
          BY <1>5, <4>1
        <5>2. pend[h] # 0 => pend[h] \in 1 .. Len(runs)
          BY <1>0, <4>2
        <5>3. QED
          BY <1>6, <4>2, <5>1, <5>2
      <4>4. armed'[h] = 0
        BY <1>5, <4>1, <4>2
      <4>5. /\ creds'[h] \in 1 .. Len(runs) + 1 /\ key'[h] \in 0 .. Len(runs) + 1
            /\ pend'[h] \in 0 .. Len(runs)
        <5>1. creds'[h] = creds[h] /\ key'[h] \in {0, key[h]} /\ pend'[h] \in {0, pend[h]}
          BY <1>2, <1>5, <4>1
        <5>2. Len(runs) \in Nat
          BY <1>0
        <5>3. QED
          BY <4>2, <5>1, <5>2
      <4>6. 0 \in 0 .. Len(runs)
        BY <1>0
      <4>7. QED
        BY <4>3, <4>4, <4>5, <4>6
    <3>3. QED
      BY <3>1, <3>2
  <2>3. RunsOwn'
    <3>1. \A r \in 1 .. Len(runs) : runs[r].socket \in 1 .. n + 1
      BY <1>0
    <3>2. QED
      BY <1>2, <1>6, <3>1 DEF Owned, RunsOwn
  <2>4. ContsOwn'
    BY <1>1, <1>6 DEF Owned, ContsOwn
  <2>5. QED
    BY <2>1, <2>2, <2>3, <2>4 DEF Owned
<1>9. Gone'
  <2>1. \A r \in 1 .. Len(runs) : creds'[runs[r].socket] = creds[runs[r].socket]
    BY <1>0, <1>2
  <2>2. \A r \in 1 .. Len(runs) : runs'[r].step = "saving" =>
          creds'[runs'[r].socket] > runs'[r].old
    BY <1>6, <2>1 DEF Gone
  <2>3. ASSUME \A r \in 1 .. Len(runs) : ~runs'[r].overtaken, NEW r \in 1 .. Len(runs)
        PROVE  /\ runs'[r].asked => disk' # runs'[r].old /\ creds'[Len(creds')] # runs'[r].old
               /\ runs'[r].step # "saving"
    <3>1. \A q \in 1 .. Len(runs) : ~runs[q].overtaken /\ runs[q].step # "saving"
      BY <1>6, <2>3
    <3>2. runs[r].asked => disk # runs[r].old
      BY <3>1 DEF Gone
    <3>3. creds'[Len(creds')] = disk /\ disk' = disk
      BY <1>1, <1>2
    <3>4. QED
      BY <1>6, <3>1, <3>2, <3>3
  <2>4. QED
    BY <1>6, <2>2, <2>3 DEF Gone
<1>10. Own'
  <2>1. \A r \in 1 .. Len(runs) : Continues(r)' => Continues(r)
    BY <1>1 DEF Continues
  <2>2. ASSUME NEW r \in 1 .. Len(runs), Live(r)' PROVE Live(r)
    <3>1. runs'[r].socket = runs[r].socket /\ runs'[r].step = runs[r].step
      BY <1>6
    <3>2. pend'[runs[r].socket] \in {0, pend[runs[r].socket]} /\ r # 0
      <4>1. runs[r].socket \in 1 .. n
        BY <1>0
      <4>2. QED
        BY <1>5, <4>1
    <3>3. QED
      BY <2>1, <2>2, <3>1, <3>2 DEF Live
  <2>3. \A r \in 1 .. Len(runs) :
          /\ creds'[runs[r].socket] = creds[runs[r].socket]
          /\ key'[runs[r].socket] \in {0, key[runs[r].socket]}
    BY <1>0, <1>2, <1>5
  <2>4. SUFFICES ASSUME NEW r \in 1 .. Len(runs), ~runs[r].overlapped
                 PROVE  /\ runs[r].proof \in {0, runs[r].old} /\ runs[r].carried \in {0, runs[r].new}
                        /\ runs[r].step \in {"saving", "signing", "fetching"} =>
                             key'[runs[r].socket] \in {0, runs[r].old}
                        /\ Live(r)' => creds'[runs[r].socket] = runs[r].new
    BY <1>6 DEF Own
  <2>5. QED
    BY <2>2, <2>3, <2>4 DEF Own
<1>11. QED
  BY <1>7, <1>8, <1>9, <1>10

(* What a crash makes of the prologues and continuations there were. *)
LEMMA AllLost ==
  ASSUME SecretInv, Crash
  PROVE  /\ runs' \in Seq(Run) /\ Len(runs') = Len(runs)
         /\ \A r \in 1 .. Len(runs) :
              /\ runs'[r].socket = runs[r].socket /\ runs'[r].step \in {"failed", "lost"}
              /\ runs'[r].old = runs[r].old /\ runs'[r].new = runs[r].new
              /\ runs'[r].proof = runs[r].proof /\ runs'[r].carried = runs[r].carried
              /\ runs'[r].asked = runs[r].asked /\ runs'[r].overlapped = runs[r].overlapped
              /\ runs'[r].overtaken = runs[r].overtaken
              /\ runs'[r].told = runs[r].told /\ runs'[r].untimely = runs[r].untimely
              /\ runs'[r].step = "failed" => runs[r].step = "failed"
         /\ conts' \in Seq(Cont) /\ Len(conts') = Len(conts)
         /\ \A i \in 1 .. Len(conts) :
              conts'[i].socket = conts[i].socket /\ conts'[i].run = conts[i].run /\ conts'[i].step = "failed"
<1> USE DEF SecretInv
<1>0. /\ Len(creds) \in Nat /\ Len(runs) \in Nat /\ Len(conts) \in Nat
      /\ key \in [1 .. Len(creds) -> Nat] /\ waiting \in [1 .. Len(runs) -> Answer]
      /\ DOMAIN runs = 1 .. Len(runs) /\ DOMAIN conts = 1 .. Len(conts)
      /\ \A r \in 1 .. Len(runs) : runs[r] \in Run
      /\ \A i \in 1 .. Len(conts) : conts[i] \in Cont
      /\ "lost" \in Steps /\ "none" \in Answer
  BY Entries DEF Shape, Steps, Answer
<1>1. /\ UNCHANGED <<signer, creds, disk>> /\ cur' = 0 /\ pendingPasskey' = 0 /\ stale' = FALSE
      /\ key' = [h \in 1 .. Len(creds) |-> 0] /\ pend' = key' /\ armed' = key'
      /\ waiting' = [r \in 1 .. Len(runs) |-> "none"]
      /\ runs' = [r \in 1 .. Len(runs) |->
                   IF runs[r].step = "failed" THEN runs[r] ELSE [runs[r] EXCEPT !.step = "lost"]]
      /\ conts' = [i \in 1 .. Len(conts) |-> [conts[i] EXCEPT !.step = "failed"]]
  BY <1>0 DEF Crash
<1>2. /\ runs' \in Seq(Run) /\ Len(runs') = Len(runs)
      /\ \A r \in 1 .. Len(runs) :
           /\ runs'[r].socket = runs[r].socket /\ runs'[r].step \in {"failed", "lost"}
           /\ runs'[r].old = runs[r].old /\ runs'[r].new = runs[r].new
           /\ runs'[r].proof = runs[r].proof /\ runs'[r].carried = runs[r].carried
           /\ runs'[r].asked = runs[r].asked /\ runs'[r].overlapped = runs[r].overlapped
           /\ runs'[r].overtaken = runs[r].overtaken
           /\ runs'[r].told = runs[r].told /\ runs'[r].untimely = runs[r].untimely
           /\ runs'[r].step = "failed" => runs[r].step = "failed"
  <2> DEFINE e(r) == IF runs[r].step = "failed" THEN runs[r] ELSE [runs[r] EXCEPT !.step = "lost"]
  <2>1. \A r \in 1 .. Len(runs) :
          /\ e(r) \in Run /\ e(r).socket = runs[r].socket /\ e(r).step \in {"failed", "lost"}
          /\ e(r).old = runs[r].old /\ e(r).new = runs[r].new
          /\ e(r).proof = runs[r].proof /\ e(r).carried = runs[r].carried
          /\ e(r).asked = runs[r].asked /\ e(r).overlapped = runs[r].overlapped
          /\ e(r).overtaken = runs[r].overtaken
          /\ e(r).told = runs[r].told /\ e(r).untimely = runs[r].untimely
          /\ e(r).step = "failed" => runs[r].step = "failed"
    BY <1>0 DEF Run
  <2>2. runs' = [r \in 1 .. Len(runs) |-> e(r)]
    BY <1>1
  <2> HIDE DEF e
  <2>3. runs' \in [1 .. Len(runs) -> Run] /\ \A r \in 1 .. Len(runs) : runs'[r] = e(r)
    BY <2>1, <2>2
  <2>4. runs' \in Seq(Run) /\ Len(runs') = Len(runs)
    BY <1>0, <2>3, FunctionIsSeq
  <2>5. QED
    BY <2>1, <2>3, <2>4
<1>3. /\ conts' \in Seq(Cont) /\ Len(conts') = Len(conts)
      /\ \A i \in 1 .. Len(conts) :
           conts'[i].socket = conts[i].socket /\ conts'[i].run = conts[i].run /\ conts'[i].step = "failed"
  <2> DEFINE c(i) == [conts[i] EXCEPT !.step = "failed"]
  <2>1. \A i \in 1 .. Len(conts) :
          /\ c(i) \in Cont /\ c(i).socket = conts[i].socket /\ c(i).run = conts[i].run
          /\ c(i).step = "failed"
    BY <1>0 DEF Cont
  <2>2. conts' = [i \in 1 .. Len(conts) |-> c(i)]
    BY <1>1
  <2> HIDE DEF c
  <2>3. conts' \in [1 .. Len(conts) -> Cont] /\ \A i \in 1 .. Len(conts) : conts'[i] = c(i)
    BY <2>1, <2>2
  <2>4. conts' \in Seq(Cont) /\ Len(conts') = Len(conts)
    BY <1>0, <2>3, FunctionIsSeq
  <2>5. QED
    BY <2>1, <2>3, <2>4
<1>4. QED
  BY <1>2, <1>3

(* The process ends: what was under way is lost, and nothing is pending. *)
LEMMA CrashKeeps == ASSUME SecretInv, Crash PROVE SecretInv'
<1> USE DEF SecretInv
<1>0. /\ Len(creds) \in Nat /\ Len(runs) \in Nat /\ Len(conts) \in Nat
      /\ key \in [1 .. Len(creds) -> Nat] /\ waiting \in [1 .. Len(runs) -> Answer]
      /\ DOMAIN runs = 1 .. Len(runs) /\ DOMAIN conts = 1 .. Len(conts)
      /\ \A r \in 1 .. Len(runs) : runs[r] \in Run
      /\ \A i \in 1 .. Len(conts) : conts[i] \in Cont
      /\ "lost" \in Steps /\ "none" \in Answer
  BY Entries DEF Shape, Steps, Answer
<1>1. /\ UNCHANGED <<signer, creds, disk>> /\ cur' = 0 /\ pendingPasskey' = 0 /\ stale' = FALSE
      /\ key' = [h \in 1 .. Len(creds) |-> 0] /\ pend' = key' /\ armed' = key'
      /\ waiting' = [r \in 1 .. Len(runs) |-> "none"]
      /\ runs' = [r \in 1 .. Len(runs) |->
                   IF runs[r].step = "failed" THEN runs[r] ELSE [runs[r] EXCEPT !.step = "lost"]]
      /\ conts' = [i \in 1 .. Len(conts) |-> [conts[i] EXCEPT !.step = "failed"]]
  BY <1>0 DEF Crash
<1>2. /\ runs' \in Seq(Run) /\ Len(runs') = Len(runs)
      /\ \A r \in 1 .. Len(runs) :
           /\ runs'[r].socket = runs[r].socket /\ runs'[r].step \in {"failed", "lost"}
           /\ runs'[r].old = runs[r].old /\ runs'[r].new = runs[r].new
           /\ runs'[r].proof = runs[r].proof /\ runs'[r].carried = runs[r].carried
           /\ runs'[r].asked = runs[r].asked /\ runs'[r].overlapped = runs[r].overlapped
           /\ runs'[r].overtaken = runs[r].overtaken
           /\ runs'[r].told = runs[r].told /\ runs'[r].untimely = runs[r].untimely
           /\ runs'[r].step = "failed" => runs[r].step = "failed"
  BY AllLost
<1>3. /\ conts' \in Seq(Cont) /\ Len(conts') = Len(conts)
      /\ \A i \in 1 .. Len(conts) :
           conts'[i].socket = conts[i].socket /\ conts'[i].run = conts[i].run /\ conts'[i].step = "failed"
  BY AllLost
<1>4. Shape'
  <2>1. key' \in [1 .. Len(creds) -> Nat] /\ waiting' \in [1 .. Len(runs) -> Answer]
    BY <1>0, <1>1
  <2>2. /\ signer' \in BOOLEAN /\ stale' \in BOOLEAN /\ creds' \in Seq(Nat)
        /\ Len(creds') <= MaxSockets /\ cur' \in {0, Len(creds')}
        /\ key' \in [1 .. Len(creds') -> Nat] /\ pend' \in [1 .. Len(creds') -> Nat]
        /\ armed' \in [1 .. Len(creds') -> Nat]
    BY <1>1, <2>1 DEF Shape
  <2>3. /\ runs' \in Seq(Run) /\ Len(runs') <= MaxPrologues /\ conts' \in Seq(Cont)
        /\ waiting' \in [1 .. Len(runs') -> Answer]
    BY <1>2, <1>3, <2>1 DEF Shape
  <2>4. pendingPasskey' \in 0 .. Len(runs')
    BY <1>0, <1>1, <1>2
  <2>5. QED
    BY <2>2, <2>3, <2>4 DEF Shape
<1>5. \A h \in 1 .. Len(creds) : key'[h] = 0 /\ pend'[h] = 0 /\ armed'[h] = 0
  BY <1>1
<1>6. Owned'
  <2>1. Fresh(disk)' /\ SocketsOwn'
    BY <1>0, <1>1, <1>2, <1>5 DEF Owned, SocketsOwn, Fresh
  <2>2. RunsOwn' /\ ContsOwn'
    BY <1>1, <1>2, <1>3 DEF Owned, RunsOwn, ContsOwn
  <2>3. QED
    BY <2>1, <2>2 DEF Owned
<1>7. Gone'
  <2>1. \A r \in 1 .. Len(runs) : runs'[r].step # "saving"
    BY <1>2
  <2>2. ASSUME \A r \in 1 .. Len(runs) : ~runs'[r].overtaken, NEW r \in 1 .. Len(runs), runs'[r].asked
        PROVE  disk' # runs'[r].old /\ creds'[Len(creds')] # runs'[r].old
    <3>1. \A q \in 1 .. Len(runs) : ~runs[q].overtaken
      BY <1>2, <2>2
    <3>2. disk # runs[r].old /\ creds[Len(creds)] # runs[r].old
      BY <1>2, <2>2, <3>1 DEF Gone
    <3>3. QED
      BY <1>1, <1>2, <3>2
  <2>3. QED
    BY <1>2, <2>1, <2>2 DEF Gone
<1>8. Own'
  <2>1. DOMAIN conts' = 1 .. Len(conts)
    BY <1>1
  <2>2. \A r \in 1 .. Len(runs) : ~Continues(r)'
    BY <1>3, <2>1 DEF Continues
  <2>3. \A r \in 1 .. Len(runs) : pend'[runs'[r].socket] = 0
    BY <1>2, <1>5 DEF Owned, RunsOwn
  <2>4. \A r \in 1 .. Len(runs) : ~Live(r)'
    BY <1>2, <2>2, <2>3 DEF Live, Working
  <2>5. QED
    BY <1>2, <2>4 DEF Own
<1>9. QED
  BY <1>4, <1>6, <1>7, <1>8
-----------------------------------------------------------------------------
(* What a prologue that begins makes of the prologues there were. *)
LEMMA Marked ==
  ASSUME SecretInv, cur # 0, NEW step \in {"saving", "failed"},
         \/ runs' = Begun(step, creds[cur])
         \/ runs' = [Begun(step, creds[cur]) EXCEPT ![Len(runs) + 1] = Tell(@)]
  PROVE  /\ runs' \in Seq(Run) /\ Len(runs') = Len(runs) + 1
         /\ \A r \in 1 .. Len(runs) :
              /\ runs'[r].socket = runs[r].socket /\ runs'[r].step = runs[r].step
              /\ runs'[r].old = runs[r].old /\ runs'[r].new = runs[r].new
              /\ runs'[r].proof = runs[r].proof /\ runs'[r].carried = runs[r].carried
              /\ runs'[r].asked = runs[r].asked /\ runs'[r].overtaken = runs[r].overtaken
              /\ runs'[r].told = runs[r].told /\ runs'[r].untimely = runs[r].untimely
              /\ runs'[r].overlapped <=> (runs[r].overlapped \/ Overlaps(r))
         /\ LET new == runs'[Len(runs) + 1]
            IN  /\ new.socket = cur /\ new.step = step
                /\ new.old = creds[cur] /\ new.new = Len(runs) + 2
                /\ new.proof = 0 /\ new.carried = 0 /\ ~new.asked /\ ~new.overtaken
                /\ new.overlapped <=> \E r \in 1 .. Len(runs) : Overlaps(r)
                /\ runs' = Begun(step, creds[cur]) => new.told = 0
                /\ runs' = [Begun(step, creds[cur]) EXCEPT ![Len(runs) + 1] = Tell(@)] => new.told = 1
<1> USE DEF SecretInv
<1>0. /\ Len(runs) \in Nat /\ DOMAIN runs = 1 .. Len(runs) /\ cur \in Nat
      /\ \A r \in 1 .. Len(runs) : runs[r] \in Run
      /\ creds[cur] \in Nat /\ step \in Steps
  BY Entries DEF Shape, Steps, Working
<1> DEFINE n == Len(runs)
           o(r) == runs[r].overlapped \/ Overlaps(r)
           e(r) == [runs[r] EXCEPT !.overlapped = o(r)]
           olds == [r \in 1 .. n |-> e(r)]
           any  == \E r \in 1 .. n : Overlaps(r)
           run  == [socket |-> cur, step |-> step, old |-> creds[cur], new |-> n + 2, proof |-> 0,
                    carried |-> 0, asked |-> FALSE, overtaken |-> FALSE, untimely |-> FALSE, told |-> 0,
                    overlapped |-> any]
           new  == Tell(run)
<1>1. \/ runs' = Append(olds, run)
      \/ runs' = [Append(olds, run) EXCEPT ![n + 1] = Tell(@)]
  BY <1>0 DEF Begun
<1>2. \A r \in 1 .. n :
        /\ e(r) \in Run /\ e(r).socket = runs[r].socket /\ e(r).step = runs[r].step
        /\ e(r).old = runs[r].old /\ e(r).new = runs[r].new
        /\ e(r).proof = runs[r].proof /\ e(r).carried = runs[r].carried
        /\ e(r).asked = runs[r].asked /\ e(r).overtaken = runs[r].overtaken
        /\ e(r).told = runs[r].told /\ e(r).untimely = runs[r].untimely
        /\ e(r).overlapped = o(r)
  <2>1. \A r \in 1 .. n : o(r) \in BOOLEAN
    OBVIOUS
  <2> HIDE DEF o
  <2>2. QED
    BY <1>0, <2>1 DEF Run
<1>3. \A r \in 1 .. n : o(r) <=> (runs[r].overlapped \/ Overlaps(r))
  OBVIOUS
<1>4. \A e1 \in {run, new} :
        /\ e1 \in Run /\ e1.socket = cur /\ e1.step = step
        /\ e1.old = creds[cur] /\ e1.new = n + 2
        /\ e1.proof = 0 /\ e1.carried = 0 /\ e1.asked = FALSE /\ e1.overtaken = FALSE
        /\ e1.overlapped = any /\ run.told = 0 /\ new.told = 1
  <2>1. any \in BOOLEAN
    OBVIOUS
  <2> HIDE DEF any
  <2>2. n + 2 \in Nat
    BY <1>0
  <2>3. \A m \in Nat :
          [socket |-> cur, step |-> step, old |-> creds[cur], new |-> m, proof |-> 0,
           carried |-> 0, asked |-> FALSE, overtaken |-> FALSE, untimely |-> FALSE, told |-> 0,
           overlapped |-> any] \in Run
    BY <1>0, <2>1 DEF Run
  <2>4. run \in Run
    BY <2>2, <2>3
  <2>5. /\ run.socket = cur /\ run.step = step /\ run.old = creds[cur] /\ run.new = n + 2
        /\ run.proof = 0 /\ run.carried = 0 /\ run.asked = FALSE /\ run.overtaken = FALSE
        /\ run.told = 0 /\ run.overlapped = any
    OBVIOUS
  <2> HIDE DEF run
  <2>6. new = [run EXCEPT !.told = 1]
    BY <2>5 DEF Tell
  <2>7. /\ new \in Run
        /\ new.socket = cur /\ new.step = step /\ new.old = creds[cur] /\ new.new = n + 2
        /\ new.proof = 0 /\ new.carried = 0 /\ new.asked = FALSE /\ new.overtaken = FALSE
        /\ new.told = 1 /\ new.overlapped = any
    BY <2>4, <2>5, <2>6 DEF Run
  <2>8. QED
    BY <2>4, <2>5, <2>7
<1> HIDE DEF o, e, any
<1>5. olds \in Seq(Run) /\ Len(olds) = n /\ \A r \in 1 .. n : olds[r] = e(r)
  <2>1. olds \in [1 .. n -> Run] /\ \A r \in 1 .. n : olds[r] = e(r)
    BY <1>2
  <2> HIDE DEF olds
  <2>2. QED
    BY <1>0, <2>1, FunctionIsSeq
<1> HIDE DEF olds
<1>6. /\ Append(olds, run) \in Seq(Run) /\ Len(Append(olds, run)) = n + 1
      /\ Append(olds, run)[n + 1] = run
      /\ \A r \in 1 .. n : Append(olds, run)[r] = e(r)
  BY <1>4, <1>5, EntryAdded
<1>7. PICK s \in Seq(Run) : s = Append(olds, run)
  BY <1>6
<1>8. runs' = s \/ runs' = [s EXCEPT ![n + 1] = new]
  BY <1>1, <1>6, <1>7
<1>b. any <=> \E r \in 1 .. n : Overlaps(r)
  BY DEF any
<1>s. s[n + 1] = run
  BY <1>6, <1>7
<1>t. s = Begun(step, creds[cur])
  BY <1>0, <1>7 DEF Begun, olds, e, o, any, run
<1>u. [s EXCEPT ![n + 1] = Tell(@)] = [s EXCEPT ![n + 1] = new]
  BY <1>s DEF new
<1> HIDE DEF run, new
<1>9. /\ s \in Seq(Run) /\ Len(s) = n + 1 /\ n + 1 \in 1 .. Len(s)
      /\ \A r \in 1 .. n : s[r] = e(r)
  BY <1>0, <1>6, <1>7
<1>10. /\ runs' \in Seq(Run) /\ Len(runs') = n + 1 /\ runs'[n + 1] \in {run, new}
       /\ \A r \in 1 .. n : runs'[r] = e(r)
       /\ runs' = s => runs'[n + 1] = run
       /\ runs' = [s EXCEPT ![n + 1] = new] => runs'[n + 1] = new
  <2>1. /\ [s EXCEPT ![n + 1] = new] \in Seq(Run) /\ Len([s EXCEPT ![n + 1] = new]) = Len(s)
        /\ [s EXCEPT ![n + 1] = new][n + 1] = new
        /\ \A j \in 1 .. Len(s) : j # n + 1 => [s EXCEPT ![n + 1] = new][j] = s[j]
    BY <1>4, <1>9, EntryReplaced
  <2>2. \A r \in 1 .. n : r \in 1 .. Len(s) /\ r # n + 1
    BY <1>0, <1>9
  <2>3. QED
    BY <1>8, <1>s, <1>9, <2>1, <2>2
<1>11. \A r \in 1 .. n :
         /\ runs'[r].socket = runs[r].socket /\ runs'[r].step = runs[r].step
         /\ runs'[r].old = runs[r].old /\ runs'[r].new = runs[r].new
         /\ runs'[r].proof = runs[r].proof /\ runs'[r].carried = runs[r].carried
         /\ runs'[r].asked = runs[r].asked /\ runs'[r].overtaken = runs[r].overtaken
         /\ runs'[r].told = runs[r].told /\ runs'[r].untimely = runs[r].untimely
         /\ runs'[r].overlapped <=> (runs[r].overlapped \/ Overlaps(r))
  BY <1>2, <1>3, <1>10
<1>12. /\ runs' = Begun(step, creds[cur]) => runs'[n + 1].told = 0
       /\ runs' = [Begun(step, creds[cur]) EXCEPT ![n + 1] = Tell(@)] => runs'[n + 1].told = 1
  BY <1>4, <1>10, <1>t, <1>u
<1>13. QED
  BY <1>4, <1>10, <1>11, <1>12, <1>b

(* A prologue that begins has its secrets, and every other one of its socket that is *)
(* live is marked.                                                                   *)
LEMMA BegunKeeps ==
  ASSUME SecretInv, NEW step \in {"saving", "failed"}, cur # 0, Len(runs) < MaxPrologues,
         \/ runs' = Begun(step, creds[cur])
         \/ runs' = [Begun(step, creds[cur]) EXCEPT ![Len(runs) + 1] = Tell(@)],
         waiting' = Append(waiting, "none"),
         UNCHANGED <<signer, cur, disk, pend, armed, pendingPasskey, stale, conts>>,
         IF step = "failed" THEN UNCHANGED <<key, creds>>
         ELSE /\ key' = [key EXCEPT ![cur] = creds[cur]]
              /\ creds' = [creds EXCEPT ![cur] = Len(runs) + 2]
  PROVE  SecretInv'
<1> USE DEF SecretInv
<1> DEFINE n == Len(runs)
           new == runs'[n + 1]
<1>0. /\ n \in Nat /\ Len(creds) \in Nat /\ DOMAIN conts = 1 .. Len(conts)
      /\ key \in [1 .. Len(creds) -> Nat] /\ pend \in [1 .. Len(creds) -> Nat]
      /\ armed \in [1 .. Len(creds) -> Nat] /\ waiting \in [1 .. n -> Answer]
      /\ pendingPasskey \in 0 .. n /\ creds \in Seq(Nat)
      /\ cur # 0 /\ cur = Len(creds) /\ cur \in 1 .. Len(creds)
      /\ creds[cur] \in 1 .. n + 1 /\ Len(creds) <= MaxSockets
      /\ \A h \in 1 .. Len(creds) : creds[h] \in Nat
      /\ \A r \in 1 .. n : runs[r] \in Run /\ runs[r].socket \in 1 .. Len(creds)
                          /\ runs[r].old \in 1 .. r /\ runs[r].new = r + 1
  <2>1. /\ n \in Nat /\ Len(creds) \in Nat /\ DOMAIN conts = 1 .. Len(conts)
        /\ \A h \in 1 .. Len(creds) : creds[h] \in Nat
        /\ \A r \in 1 .. n : runs[r] \in Run
    BY Entries
  <2>2. /\ key \in [1 .. Len(creds) -> Nat] /\ pend \in [1 .. Len(creds) -> Nat]
        /\ armed \in [1 .. Len(creds) -> Nat] /\ waiting \in [1 .. n -> Answer]
        /\ pendingPasskey \in 0 .. n /\ creds \in Seq(Nat) /\ Len(creds) <= MaxSockets
    BY DEF Shape
  <2>3. cur = Len(creds) /\ cur \in 1 .. Len(creds)
    BY <2>1 DEF Shape
  <2>4. creds[cur] \in 1 .. n + 1
    BY <2>3 DEF Owned, SocketsOwn, Fresh
  <2>5. \A r \in 1 .. n : runs[r].socket \in 1 .. Len(creds)
                          /\ runs[r].old \in 1 .. r /\ runs[r].new = r + 1
    BY DEF Owned, RunsOwn
  <2>6. QED
    BY <2>1, <2>2, <2>3, <2>4, <2>5
<1>1. /\ runs' \in Seq(Run) /\ Len(runs') = n + 1
      /\ \A r \in 1 .. n :
           /\ runs'[r].socket = runs[r].socket /\ runs'[r].step = runs[r].step
           /\ runs'[r].old = runs[r].old /\ runs'[r].new = runs[r].new
           /\ runs'[r].proof = runs[r].proof /\ runs'[r].carried = runs[r].carried
           /\ runs'[r].asked = runs[r].asked /\ runs'[r].overtaken = runs[r].overtaken
           /\ ~runs'[r].overlapped => ~runs[r].overlapped /\ ~Overlaps(r)
      /\ new.socket = cur /\ new.step = step /\ new.old = creds[cur] /\ new.new = n + 2
      /\ new.proof = 0 /\ new.carried = 0 /\ ~new.asked /\ ~new.overtaken
  BY Marked
<1> HIDE DEF new
<1>a. /\ \A i \in 1 .. n : i \in 1 .. n + 1 /\ i # n + 1
      /\ \A i \in 0 .. n : i \in 0 .. n + 1 /\ (i # 0 => i \in 1 .. n)
      /\ \A v \in 1 .. n + 1 : v \in 1 .. n + 2 /\ v \in 0 .. n + 2 /\ n + 2 > v /\ n + 2 # v
      /\ \A v \in 0 .. n + 1 : v \in 0 .. n + 2
      /\ n + 2 \in 1 .. n + 2 /\ Len(runs') + 1 = n + 2 /\ n + 1 \in 1 .. n + 1
      /\ \A i \in 1 .. n + 1 : i # n + 1 => i \in 1 .. n
  <2>1. n \in Nat
    BY <1>0
  <2>2. Len(runs') = n + 1
    BY <1>1
  <2>3. QED
    BY <2>1, <2>2
<1>2. /\ key' \in [1 .. Len(creds) -> Nat] /\ creds' \in Seq(Nat) /\ Len(creds') = Len(creds)
      /\ \A h \in 1 .. Len(creds) : h # cur => key'[h] = key[h] /\ creds'[h] = creds[h]
      /\ IF step = "failed" THEN key'[cur] = key[cur] /\ creds'[cur] = creds[cur]
         ELSE key'[cur] = creds[cur] /\ creds'[cur] = n + 2
  <2>1. CASE step = "failed"
    BY <1>0, <2>1
  <2>2. CASE step # "failed"
    <3>1. key' = [key EXCEPT ![cur] = creds[cur]] /\ creds' = [creds EXCEPT ![cur] = n + 2]
      BY <2>2
    <3>2. n + 2 \in Nat
      BY <1>0
    <3>3. /\ creds' \in Seq(Nat) /\ Len(creds') = Len(creds) /\ creds'[cur] = n + 2
          /\ \A h \in 1 .. Len(creds) : h # cur => creds'[h] = creds[h]
      BY <1>0, <3>1, <3>2, EntryReplaced
    <3>4. /\ key' \in [1 .. Len(creds) -> Nat] /\ key'[cur] = creds[cur]
          /\ \A h \in 1 .. Len(creds) : h # cur => key'[h] = key[h]
      BY <1>0, <3>1
    <3>5. QED
      BY <2>2, <3>3, <3>4
  <2>3. QED
    BY <2>1, <2>2
<1>3. waiting' \in [1 .. n + 1 -> Answer]
  <2>1. "none" \in Answer
    BY DEF Answer
  <2>2. waiting \in Seq(Answer) /\ Len(waiting) = n
    BY <1>0, FunctionIsSeq
  <2>3. waiting' \in Seq(Answer) /\ Len(waiting') = n + 1
    BY <2>1, <2>2, EntryAdded
  <2>4. QED
    BY <2>3, LenProperties, ElementOfSeq
<1>4. Shape'
  <2>1. n + 1 <= MaxPrologues /\ pendingPasskey' \in 0 .. n + 1
    <3>1. n \in Nat /\ n < MaxPrologues /\ pendingPasskey \in 0 .. n /\ pendingPasskey' = pendingPasskey
      BY <1>0
    <3>2. QED
      BY <3>1, PasskeyAssumption
  <2>2. QED
    BY <1>0, <1>1, <1>2, <1>3, <2>1 DEF Shape
<1>5. Owned'
  <2>1. Fresh(disk)'
    BY <1>0, <1>1 DEF Owned, Fresh
  <2>2. SocketsOwn'
    <3> SUFFICES ASSUME NEW h \in 1 .. Len(creds)
                 PROVE  /\ creds'[h] \in 1 .. n + 2 /\ key'[h] \in 0 .. n + 2
                        /\ pend'[h] \in 0 .. n + 1 /\ (pend'[h] # 0 => runs'[pend'[h]].socket = h)
                        /\ armed'[h] \in 0 .. n + 1 /\ (h # cur' => armed'[h] = 0)
      <4>1. Len(creds') = Len(creds) /\ Len(runs') = n + 1 /\ Len(runs') + 1 = n + 2
        BY <1>1, <1>2, <1>a
      <4>2. QED
        BY <4>1 DEF SocketsOwn, Fresh
    <3>1. /\ creds[h] \in 1 .. n + 1 /\ key[h] \in 0 .. n + 1
          /\ pend[h] \in 0 .. n /\ (pend[h] # 0 => runs[pend[h]].socket = h)
          /\ armed[h] \in 0 .. n /\ (h # cur => armed[h] = 0)
      BY DEF Owned, SocketsOwn, Fresh
    <3>2. creds'[h] \in {creds[h], n + 2} /\ key'[h] \in {key[h], creds[cur]}
      BY <1>2
    <3>3. pend'[h] # 0 => runs'[pend'[h]].socket = h
      <4>1. pend'[h] = pend[h]
        OBVIOUS
      <4>2. QED
        BY <1>a, <1>1, <3>1, <4>1
    <3>4. creds'[h] \in 1 .. n + 2 /\ key'[h] \in 0 .. n + 2
      <4>1. creds[cur] \in 1 .. n + 1
        BY <1>0
      <4>2. QED
        BY <1>a, <3>1, <3>2, <4>1
    <3>5. QED
      <4>1. pend' = pend /\ armed' = armed /\ cur' = cur
        OBVIOUS
      <4>2. QED
        BY <1>a, <3>1, <3>3, <3>4, <4>1
  <2>3. RunsOwn'
    <3> SUFFICES ASSUME NEW r \in 1 .. n + 1
                 PROVE  /\ runs'[r].socket \in 1 .. Len(creds) /\ runs'[r].new = r + 1
                        /\ runs'[r].old \in 1 .. r
      BY <1>1, <1>2 DEF RunsOwn
    <3>1. CASE r = n + 1
      <4>1. cur \in 1 .. Len(creds) /\ creds[cur] \in 1 .. n + 1 /\ n \in Nat
        BY <1>0
      <4>2. new.socket = cur /\ new.old = creds[cur] /\ new.new = n + 2
        BY <1>1
      <4>3. runs'[r] = new
        BY <3>1 DEF new
      <4>4. QED
        BY <3>1, <4>1, <4>2, <4>3
    <3>2. CASE r # n + 1
      <4>1. r \in 1 .. n
        BY <1>a, <3>2
      <4>2. QED
        BY <1>0, <1>1, <4>1
    <3>3. QED
      BY <3>1, <3>2
  <2>4. ContsOwn'
    <3>1. \A i \in 1 .. Len(conts) :
            conts[i].run \in 1 .. n + 1 /\ runs'[conts[i].run].socket = conts[i].socket
      BY <1>a, <1>1 DEF Owned, ContsOwn
    <3>2. QED
      BY <1>1, <3>1 DEF ContsOwn
  <2>5. QED
    BY <2>1, <2>2, <2>3, <2>4 DEF Owned
<1>6. Gone'
  <2>1. ASSUME NEW r \in 1 .. n + 1, runs'[r].step = "saving"
        PROVE  creds'[runs'[r].socket] > runs'[r].old
    <3>1. CASE r = n + 1
      <4>1. new.step = "saving" /\ new.socket = cur /\ new.old = creds[cur] /\ step = "saving"
        BY <1>1, <2>1, <3>1 DEF new
      <4>2. creds'[cur] = n + 2 /\ creds[cur] \in 1 .. n + 1
        BY <1>0, <1>2, <4>1
      <4>3. QED
        BY <1>a, <3>1, <4>1, <4>2 DEF new
    <3>2. CASE r # n + 1
      <4>1. r \in 1 .. n
        BY <1>a, <3>2
      <4>2. creds[runs[r].socket] > runs[r].old
        BY <1>1, <2>1, <4>1 DEF Gone
      <4>3. creds'[runs[r].socket] \in {creds[runs[r].socket], n + 2}
        BY <1>0, <1>2, <4>1
      <4>4. runs[r].old \in 1 .. r /\ n + 2 > runs[r].old
        <5>1. n \in Nat /\ runs[r].old \in 1 .. r
          BY <1>0, <4>1
        <5>2. QED
          BY <4>1, <5>1
      <4>5. runs'[r].socket = runs[r].socket /\ runs'[r].old = runs[r].old
        BY <1>1, <4>1
      <4>6. QED
        BY <4>2, <4>3, <4>4, <4>5
    <3>3. QED
      BY <3>1, <3>2
  <2>2. ASSUME \A r \in 1 .. n + 1 : ~runs'[r].overtaken, NEW r \in 1 .. n + 1
        PROVE  /\ runs'[r].asked => disk' # runs'[r].old /\ creds'[Len(creds)] # runs'[r].old
               /\ runs'[r].step = "saving" => runs'[r].socket = Len(creds)
    <3>1. \A q \in 1 .. n : ~runs[q].overtaken
      BY <1>a, <1>1, <2>2
    <3>2. CASE r = n + 1
      BY <1>0, <1>1, <3>2 DEF new
    <3>3. CASE r # n + 1
      <4>1. r \in 1 .. n
        BY <1>a, <3>3
      <4>2. /\ runs[r].asked => disk # runs[r].old /\ creds[Len(creds)] # runs[r].old
            /\ runs[r].step = "saving" => runs[r].socket = Len(creds)
        BY <3>1, <4>1 DEF Gone
      <4>3. creds'[Len(creds)] \in {creds[Len(creds)], n + 2} /\ n + 2 # runs[r].old
        <5>1. n \in Nat /\ runs[r].old \in 1 .. r /\ cur = Len(creds)
          BY <1>0, <4>1
        <5>2. n + 2 # runs[r].old
          BY <4>1, <5>1
        <5>3. creds'[cur] \in {creds[cur], n + 2}
          BY <1>2
        <5>4. QED
          BY <5>1, <5>2, <5>3
      <4>4. QED
        BY <1>1, <4>1, <4>2, <4>3
    <3>4. QED
      BY <3>2, <3>3
  <2>3. QED
    BY <1>1, <1>2, <2>1, <2>2 DEF Gone
<1>7. Own'
  <2> SUFFICES ASSUME NEW r \in 1 .. n + 1, ~runs'[r].overlapped
               PROVE  /\ runs'[r].proof \in {0, runs'[r].old} /\ runs'[r].carried \in {0, runs'[r].new}
                      /\ runs'[r].step \in {"saving", "signing", "fetching"} =>
                           key'[runs'[r].socket] \in {0, runs'[r].old}
                      /\ Live(r)' => creds'[runs'[r].socket] = runs'[r].new
    BY <1>1 DEF Own
  <2>1. Continues(r)' <=> Continues(r)
    BY DEF Continues
  <2>2. CASE r = n + 1
    <3>1. ~Continues(r)
      BY <1>0, <2>2 DEF Continues, Owned, ContsOwn
    <3>2. pend'[cur] # r
      <4>1. pend[cur] \in 0 .. n
        BY <1>0 DEF Owned, SocketsOwn
      <4>2. QED
        BY <1>0, <2>2, <4>1
    <3>3. Live(r)' => step = "saving"
      BY <1>1, <2>1, <2>2, <3>1, <3>2 DEF Live, new, Working
    <3>4. QED
      BY <1>1, <1>2, <2>2, <3>3 DEF new
  <2>3. CASE r # n + 1
    <3>1. r \in 1 .. n
      BY <1>a, <2>3
    <3>2. ~runs[r].overlapped /\ ~Overlaps(r)
      BY <1>1, <3>1
    <3>3. /\ runs[r].proof \in {0, runs[r].old} /\ runs[r].carried \in {0, runs[r].new}
          /\ runs[r].step \in {"saving", "signing", "fetching"} =>
               key[runs[r].socket] \in {0, runs[r].old}
          /\ Live(r) => creds[runs[r].socket] = runs[r].new
      BY <3>1, <3>2 DEF Own
    <3>4. Live(r)' <=> Live(r)
      BY <1>1, <2>1, <3>1 DEF Live
    <3>5. CASE runs[r].socket = cur
      <4>1. ~Live(r) /\ runs[r].step \notin Working
        BY <3>2, <3>5 DEF Overlaps, Live
      <4>2. QED
        BY <1>1, <3>1, <3>3, <3>4, <4>1 DEF Working
    <3>6. CASE runs[r].socket # cur
      <4>1. /\ key'[runs[r].socket] = key[runs[r].socket]
            /\ creds'[runs[r].socket] = creds[runs[r].socket]
        BY <1>0, <1>2, <3>1, <3>6
      <4>2. QED
        BY <1>1, <3>1, <3>3, <3>4, <4>1
    <3>7. QED
      BY <3>5, <3>6
  <2>4. QED
    BY <2>2, <2>3
<1>8. QED
  BY <1>4, <1>5, <1>6, <1>7
-----------------------------------------------------------------------------
(* Every step keeps the secrets' invariant. *)
LEMMA SecretStep == ASSUME SecretInv, [Next]_vars PROVE SecretInv'
<1>0. /\ DOMAIN runs = 1 .. Len(runs) /\ DOMAIN creds = 1 .. Len(creds)
      /\ DOMAIN conts = 1 .. Len(conts) /\ Len(runs) \in Nat
      /\ pendingPasskey \in 0 .. Len(runs)
  BY Entries DEF SecretInv, Shape
<1>1. CASE Initialize
  BY <1>1, InitializeKeeps
<1>2. CASE Crash
  BY <1>2, CrashKeeps
<1>3. CASE Destroy \/ CredsUpdate \/ UNCHANGED vars
  BY <1>3, QuietStep
<1>4. CASE PrologueUnreadable
  <2>1. /\ cur # 0 /\ Len(runs) < MaxPrologues
        /\ runs' = [Begun("failed", creds[cur]) EXCEPT ![Len(runs) + 1] = Tell(@)]
        /\ waiting' = Append(waiting, "none")
        /\ UNCHANGED <<signer, cur, disk, pend, armed, pendingPasskey, stale, conts, key, creds>>
    BY <1>4 DEF PrologueUnreadable, hands
  <2>2. QED
    BY <2>1, BegunKeeps
<1>5. CASE Prologue
  <2>1. /\ cur # 0 /\ Len(runs) < MaxPrologues
        /\ runs' = Begun("saving", creds[cur])
        /\ waiting' = Append(waiting, "none")
        /\ UNCHANGED <<signer, cur, disk, pend, armed, pendingPasskey, stale, conts>>
        /\ key' = [key EXCEPT ![cur] = creds[cur]] /\ creds' = [creds EXCEPT ![cur] = Len(runs) + 2]
    BY <1>5 DEF Prologue
  <2>2. QED
    BY <2>1, BegunKeeps
<1>6. CASE ResolvePasskey \/ RejectPasskey
  <2>1. pendingPasskey \in 1 .. Len(runs)
        /\ \E how \in {"answered", "refused"} : Settles(pendingPasskey, how)
    BY <1>0, <1>6 DEF ResolvePasskey, RejectPasskey
  <2>2. QED
    BY <2>1, QuietStep
<1>7. CASE Continuation
  BY <1>7, ContinuationStep
<1>8. ASSUME NEW r \in DOMAIN runs,
             \/ CredsSaved(r) \/ CredsNotWritten(r) \/ SignerAnswers(r) \/ ChallengeAnswered(r)
             \/ ChallengeTimesOut(r) \/ Signed(r) \/ NotSigned(r) \/ RefFetched(r)
             \/ PrologueAnswered(r) \/ QueryRejected(r)
      PROVE  SecretInv'
  <2>1. r \in 1 .. Len(runs)
    BY <1>0
  <2>2. CASE CredsSaved(r)
    BY <2>1, <2>2, CredsSavedKeeps
  <2>3. CASE SignerAnswers(r) \/ ChallengeAnswered(r) \/ ChallengeTimesOut(r)
    <3>1. SignerAnswers(r) \/ \E how \in {"answered", "refused"} : Settles(r, how)
      BY <2>3 DEF ChallengeAnswered, ChallengeTimesOut
    <3>2. QED
      BY <2>1, <3>1, QuietStep
  <2>4. CASE \/ CredsNotWritten(r) \/ Signed(r) \/ NotSigned(r) \/ RefFetched(r)
             \/ PrologueAnswered(r) \/ QueryRejected(r)
    BY <2>1, <2>4, PrologueStep
  <2>5. QED
    BY <1>8, <2>2, <2>3, <2>4
<1>9. ASSUME NEW h \in DOMAIN creds, ContinuationTimesOut(h) PROVE SecretInv'
  BY <1>0, <1>9, ContinuationStep
<1>10. ASSUME NEW i \in DOMAIN conts, NonceSent(i) \/ RequestSent(i) \/ ContinuationRejected(i)
       PROVE  SecretInv'
  <2>1. CASE NonceSent(i) \/ RequestSent(i)
    BY <1>0, <2>1, ContinuationStep
  <2>2. CASE ContinuationRejected(i)
    BY <1>0, <2>2, QuietStep
  <2>3. QED
    BY <1>10, <2>1, <2>2
<1>11. QED
  BY <1>1, <1>2, <1>3, <1>4, <1>5, <1>6, <1>7, <1>8, <1>9, <1>10 DEF Next

(* Whose challenge waits is the one that is pending, whatever the step. *)
LEMMA WaitStep == ASSUME Shape, Shape', WaitInv, [Next]_vars PROVE WaitInv'
<1> USE DEF WaitInv, PendingIsWaiting
<1> DEFINE n == Len(runs)
<1>0. /\ DOMAIN runs = 1 .. n /\ n \in Nat /\ waiting \in [1 .. n -> Answer]
      /\ pendingPasskey \in 0 .. n /\ DOMAIN conts = 1 .. Len(conts)
  BY Entries DEF Shape
<1>1. DOMAIN runs' = DOMAIN waiting'
  <2>1. runs' \in Seq(Run) /\ waiting' \in [1 .. Len(runs') -> Answer]
    BY DEF Shape
  <2>2. DOMAIN runs' = 1 .. Len(runs')
    BY <2>1, LenProperties
  <2>3. QED
    BY <2>1, <2>2
<1>2. /\ Refused \in [1 .. n -> Answer]
      /\ \A r \in 1 .. n : Refused[r] = IF r = pendingPasskey THEN "refused" ELSE waiting[r]
  BY <1>0, RefusedIsTyped DEF Refused
<1>3. SUFFICES /\ signer' => pendingPasskey' = 0
               /\ pendingPasskey' # 0 => waiting'[pendingPasskey'] = "waiting"
               /\ (~signer' /\ ~stale') =>
                    \A r \in DOMAIN waiting' : waiting'[r] = "waiting" => pendingPasskey' = r
  BY <1>1
<1>4. CASE Initialize \/ Destroy
  <2>1. waiting' = Refused /\ pendingPasskey' = 0 /\ UNCHANGED <<signer, stale>>
    BY <1>4 DEF Initialize, Destroy
  <2>2. QED
    BY <1>0, <1>2, <2>1
<1>5. CASE Crash
  <2>1. waiting' = [r \in 1 .. n |-> "none"] /\ pendingPasskey' = 0
    BY <1>0, <1>5 DEF Crash
  <2>2. QED
    BY <2>1
<1>6. CASE Prologue \/ PrologueUnreadable
  <2>1. waiting' = Append(waiting, "none") /\ UNCHANGED <<signer, pendingPasskey, stale>>
    BY <1>6 DEF Prologue, PrologueUnreadable
  <2>2. waiting \in Seq(Answer) /\ Len(waiting) = n
    BY <1>0, FunctionIsSeq
  <2>3. /\ DOMAIN waiting' = 1 .. n + 1 /\ waiting'[n + 1] = "none"
        /\ \A r \in 1 .. n : waiting'[r] = waiting[r]
    <3>1. "none" \in Answer
      BY DEF Answer
    <3>2. QED
      BY <2>1, <2>2, <3>1, EntryAdded, LenProperties
  <2>4. \A r \in DOMAIN waiting' : r = n + 1 \/ r \in 1 .. n
    <3>1. n \in Nat
      BY <1>0
    <3>2. \A r \in 1 .. n + 1 : r = n + 1 \/ r \in 1 .. n
      BY <3>1
    <3>3. QED
      BY <2>3, <3>2
  <2>5. QED
    BY <1>0, <2>1, <2>3, <2>4
<1>7. ASSUME NEW r \in 1 .. n, NEW how \in {"answered", "refused"}, Settles(r, how)
      PROVE  WaitInv'
  <2>1. /\ waiting' = [waiting EXCEPT ![r] = IF @ = "waiting" THEN how ELSE @]
        /\ pendingPasskey' = 0 /\ stale' = (stale \/ pendingPasskey # r) /\ signer' = signer
    BY <1>7 DEF Settles
  <2>2. \A q \in DOMAIN waiting' : waiting'[q] = "waiting" => q # r /\ waiting[q] = "waiting"
    BY <1>0, <2>1
  <2>3. ~stale' => ~stale /\ pendingPasskey = r
    BY <2>1
  <2>4. DOMAIN waiting' = DOMAIN runs
    BY <1>0, <2>1
  <2>5. QED
    BY <1>1, <2>1, <2>2, <2>3, <2>4
<1>8. CASE ResolvePasskey \/ RejectPasskey
  <2>1. /\ pendingPasskey \in 1 .. n
        /\ \E how \in {"answered", "refused"} : Settles(pendingPasskey, how)
    BY <1>0, <1>8 DEF ResolvePasskey, RejectPasskey
  <2>2. QED
    BY <1>1, <1>7, <2>1
<1>9. ASSUME NEW r \in 1 .. n, CredsSaved(r) PROVE WaitInv'
  <2>1. /\ UNCHANGED <<signer, stale>>
        /\ IF signer THEN UNCHANGED pendingPasskey
           ELSE waiting' = [Refused EXCEPT ![r] = "waiting"] /\ pendingPasskey' = r
    BY <1>9 DEF CredsSaved, Sign
  <2>2. CASE signer
    BY <1>1, <2>1, <2>2
  <2>3. CASE ~signer
    <3>1. waiting' = [Refused EXCEPT ![r] = "waiting"] /\ pendingPasskey' = r
      BY <2>1, <2>3
    <3>2. /\ waiting'[r] = "waiting" /\ DOMAIN waiting' = 1 .. n
          /\ \A q \in 1 .. n : q # r => waiting'[q] = Refused[q]
      BY <1>2, <3>1
    <3>3. ~stale' => \A q \in DOMAIN waiting' : waiting'[q] = "waiting" => pendingPasskey' = q
      BY <1>0, <1>2, <2>1, <2>3, <3>1, <3>2
    <3>4. QED
      BY <1>1, <2>1, <2>3, <3>1, <3>2, <3>3
  <2>4. QED
    BY <2>2, <2>3
<1>10. ASSUME NEW r \in 1 .. n, SignerAnswers(r) PROVE WaitInv'
  <2>1. signer /\ UNCHANGED <<signer, pendingPasskey>>
    BY <1>10 DEF SignerAnswers
  <2>2. QED
    BY <1>1, <2>1
<1>11. CASE UNCHANGED <<signer, waiting, pendingPasskey, stale>>
  BY <1>0, <1>11
<1>12. CASE \/ CredsUpdate \/ Continuation \/ UNCHANGED vars
            \/ \E r \in 1 .. n : \/ CredsNotWritten(r) \/ Signed(r) \/ NotSigned(r) \/ RefFetched(r)
                                 \/ PrologueAnswered(r) \/ QueryRejected(r)
            \/ \E h \in DOMAIN creds : ContinuationTimesOut(h)
            \/ \E i \in DOMAIN conts : NonceSent(i) \/ RequestSent(i) \/ ContinuationRejected(i)
  <2>1. UNCHANGED <<signer, waiting, pendingPasskey, stale>>
    BY <1>12 DEF CredsUpdate, Continuation, Begins, vars, CredsNotWritten, Signed, NotSigned,
      RefFetched, PrologueAnswered, QueryRejected, ContinuationTimesOut, NonceSent, RequestSent,
      ContinuationRejected
  <2>2. QED
    BY <1>11, <2>1
<1>13. ASSUME NEW r \in 1 .. n, ChallengeAnswered(r) \/ ChallengeTimesOut(r) PROVE WaitInv'
  BY <1>7, <1>13 DEF ChallengeAnswered, ChallengeTimesOut
<1>14. ASSUME NEW r \in DOMAIN runs,
              \/ CredsSaved(r) \/ CredsNotWritten(r) \/ SignerAnswers(r) \/ ChallengeAnswered(r)
              \/ ChallengeTimesOut(r) \/ Signed(r) \/ NotSigned(r) \/ RefFetched(r)
              \/ PrologueAnswered(r) \/ QueryRejected(r)
       PROVE  WaitInv'
  <2>1. r \in 1 .. n
    BY <1>0
  <2>2. QED
    BY <1>1, <1>9, <1>10, <1>12, <1>13, <1>14, <2>1
<1>15. WaitInv'
  BY <1>1, <1>4, <1>5, <1>6, <1>8, <1>12, <1>14 DEF Next
<1>16. QED
  BY <1>1, <1>15
-----------------------------------------------------------------------------
(* Nothing is under way at first. *)
LEMMA Begin == Init => SecretInv /\ WaitInv
<1> SUFFICES ASSUME Init PROVE SecretInv /\ WaitInv
  OBVIOUS
<1>1. /\ creds = <<>> /\ runs = <<>> /\ conts = <<>> /\ waiting = <<>> /\ key = <<>> /\ pend = <<>>
      /\ armed = <<>> /\ cur = 0 /\ disk = 1 /\ pendingPasskey = 0 /\ stale = FALSE
      /\ signer \in BOOLEAN
  BY DEF Init
<1>2. /\ Len(creds) = 0 /\ Len(runs) = 0 /\ Len(conts) = 0 /\ 1 .. 0 = {}
      /\ DOMAIN runs = {} /\ DOMAIN waiting = {}
  BY <1>1
<1>3. \A S : <<>> \in [1 .. 0 -> S] /\ <<>> \in Seq(S)
  OBVIOUS
<1>4. Shape
  <2>1. 0 <= MaxSockets /\ 0 <= MaxPrologues
    BY PasskeyAssumption
  <2>2. /\ creds \in Seq(Nat) /\ runs \in Seq(Run) /\ conts \in Seq(Cont)
        /\ key \in [1 .. 0 -> Nat] /\ pend \in [1 .. 0 -> Nat] /\ armed \in [1 .. 0 -> Nat]
        /\ waiting \in [1 .. 0 -> Answer]
    BY <1>1, <1>3
  <2>3. /\ signer \in BOOLEAN /\ stale \in BOOLEAN
        /\ Len(creds) <= MaxSockets /\ cur \in {0, Len(creds)} /\ Len(runs) <= MaxPrologues
        /\ pendingPasskey \in 0 .. Len(runs)
    <3>1. stale \in BOOLEAN /\ signer \in BOOLEAN
      BY <1>1
    <3>2. pendingPasskey \in 0 .. Len(runs)
      BY <1>1, <1>2
    <3>3. QED
      BY <1>1, <1>2, <2>1, <3>1, <3>2
  <2>4. /\ key \in [1 .. Len(creds) -> Nat] /\ pend \in [1 .. Len(creds) -> Nat]
        /\ armed \in [1 .. Len(creds) -> Nat] /\ waiting \in [1 .. Len(runs) -> Answer]
    BY <1>2, <2>2
  <2>5. QED
    BY <2>2, <2>3, <2>4 DEF Shape
<1>5. Owned
  BY <1>1, <1>2 DEF Owned, SocketsOwn, RunsOwn, ContsOwn, Fresh
<1>6. Gone /\ Own
  BY <1>2 DEF Gone, Own
<1>7. WaitInv
  BY <1>1, <1>2 DEF WaitInv, PendingIsWaiting
<1>8. QED
  BY <1>4, <1>5, <1>6, <1>7 DEF SecretInv

(* The secrets of a pairing are its own, and the one it replaced is gone, however its    *)
(* steps meet those of others, a teardown or a crash (handlePrologue, handleContinuation *)
(* and teardown of the adapter): what makes it so is inductive.                          *)
THEOREM SecretInvariance == Spec => []SecretInv
<1>1. Init => SecretInv
  BY Begin
<1>2. SecretInv /\ [Next]_vars => SecretInv'
  BY SecretStep
<1>3. QED
  BY <1>1, <1>2, PTL DEF Spec

(* For any number of sockets and prologues, each prologue that overlaps no other proves   *)
(* the secret it found and carries the one it made, and what a signer proved is no longer *)
(* on disk (handlePrologue saves before it signs).                                        *)
THEOREM SecretsHold == Spec => []SecretsAreSound
<1>1. SecretInv => SecretsAreSound
  <2> SUFFICES ASSUME SecretInv PROVE SecretsAreSound
    OBVIOUS
  <2> USE DEF SecretInv
  <2>1. /\ DOMAIN runs = 1 .. Len(runs) /\ DOMAIN creds = 1 .. Len(creds)
        /\ Len(runs) \in Nat /\ Len(creds) \in Nat /\ Len(runs) <= MaxPrologues
        /\ \A r \in 1 .. Len(runs) : runs[r] \in Run
    BY Entries DEF Shape
  <2>2. \A s \in 1 .. Len(runs) + 1 : s \in Secrets
    BY <2>1, PasskeyAssumption DEF Secrets
  <2>3. TypeOK
    <3>1. cur \in 0 .. Len(creds) /\ Len(creds) <= MaxSockets /\ disk \in Secrets
      <4>1. disk \in 1 .. Len(runs) + 1
        BY DEF Owned, Fresh
      <4>2. cur \in {0, Len(creds)} /\ Len(creds) <= MaxSockets
        BY DEF Shape
      <4>3. cur \in 0 .. Len(creds)
        <5>1. Len(creds) \in Nat
          BY <2>1
        <5>2. CASE cur = 0
          BY <5>1, <5>2
        <5>3. CASE cur = Len(creds)
          BY <5>1, <5>3
        <5>4. QED
          BY <4>2, <5>2, <5>3
      <4>4. disk \in Secrets
        BY <2>2, <4>1
      <4>5. QED
        BY <4>2, <4>3, <4>4
    <3>2. ASSUME NEW h \in DOMAIN creds
          PROVE  /\ creds[h] \in Secrets /\ key[h] \in {0} \cup Secrets
                 /\ {pend[h], armed[h]} \subseteq 0 .. Len(runs) /\ (h # cur => armed[h] = 0)
      <4>1. /\ creds[h] \in 1 .. Len(runs) + 1 /\ key[h] \in 0 .. Len(runs) + 1
            /\ pend[h] \in 0 .. Len(runs) /\ armed[h] \in 0 .. Len(runs) /\ (h # cur => armed[h] = 0)
        BY <2>1 DEF Owned, SocketsOwn, Fresh
      <4>2. key[h] = 0 \/ key[h] \in 1 .. Len(runs) + 1
        BY <2>1, <4>1
      <4>3. QED
        BY <2>2, <4>1, <4>2
    <3>3. \A r \in DOMAIN runs : runs[r].step \in Steps /\ runs[r].socket \in DOMAIN creds
      BY <2>1 DEF Owned, RunsOwn, Run
    <3>4. QED
      BY <3>1, <3>2, <3>3 DEF TypeOK
  <2>4. OldSecretIsGone
    BY <2>1 DEF OldSecretIsGone, Gone
  <2>5. SecretsAreOwn
    BY <2>1 DEF SecretsAreOwn, Own
  <2>6. QED
    BY <2>3, <2>4, <2>5 DEF SecretsAreSound
<1>2. QED
  BY <1>1, SecretInvariance, PTL

(* resolvePasskey and rejectPasskey answer a challenge that waits, and the one that waits *)
(* is theirs to answer, unless a challenge that was over has been answered once more.     *)
THEOREM PendingWaits == Spec => []PendingIsWaiting
<1>1. Init => SecretInv /\ WaitInv
  BY Begin
<1>2. (SecretInv /\ WaitInv) /\ [Next]_vars => (SecretInv /\ WaitInv)'
  BY SecretStep, WaitStep DEF SecretInv
<1>3. SecretInv /\ WaitInv => PendingIsWaiting
  BY DEF WaitInv
<1>4. QED
  BY <1>1, <1>2, <1>3, PTL DEF Spec
-----------------------------------------------------------------------------
(***************************************************************************)
(* How a pairing ends                                                      *)
(***************************************************************************)
\* A continuation of the prologue is under way.
Waits(i, r) == conts[i].run = r /\ conts[i].step \in {"nonce", "request"}
Broken(r) == \E i \in 1 .. Len(conts) : conts[i].run = r /\ conts[i].step = "failed"

\* A timer runs for a prologue of its socket that was sent.
ArmedOwn ==
  \A h \in 1 .. Len(creds) : armed[h] # 0 =>
    runs[armed[h]].socket = h /\ runs[armed[h]].step = "sent"

\* Of two prologues of a socket that are live, both are marked.
Alone ==
  \A r, q \in 1 .. Len(runs) :
    (r # q /\ runs[r].socket = runs[q].socket /\ Live(r) /\ Live(q)) => runs[r].overlapped

\* Its end is due: nobody was told yet.
Due(r) == runs[r].told = 0 /\ cur = runs[r].socket /\ ~runs[r].overlapped

Ends(r) ==
  /\ runs[r].step = "failed" => runs[r].told > 0
  /\ (runs[r].step \in {"querying", "sent"} /\ Due(r)) => pend[runs[r].socket] = r
  /\ (runs[r].step = "sent" /\ Due(r)) =>
       \/ armed[runs[r].socket] = r
       \/ \E i \in 1 .. Len(conts) : Waits(i, r)
       \/ Broken(r)

Once(r) ==
  (~runs[r].overlapped /\ ~runs[r].untimely) =>
    /\ runs[r].told <= 1
    /\ runs[r].step \in Working => runs[r].told = 0
    /\ armed[runs[r].socket] = r =>
         runs[r].step = "sent" /\ runs[r].told = 0 /\ \A i \in 1 .. Len(conts) : ~Waits(i, r)
    /\ \A i \in 1 .. Len(conts) : Waits(i, r) =>
         /\ runs[r].step = "sent" /\ runs[r].told = 0
         /\ \A j \in 1 .. Len(conts) : Waits(j, r) => i = j

EndInv == ArmedOwn /\ Alone /\ \A r \in 1 .. Len(runs) : Ends(r) /\ Once(r)

\* No step of this prologue: none of it has moved, and nothing of it has begun.
Still(q) ==
  /\ runs'[q].socket = runs[q].socket /\ runs'[q].step = runs[q].step
  /\ runs'[q].told = runs[q].told /\ runs'[q].untimely = runs[q].untimely
  /\ runs'[q].overlapped = runs[q].overlapped
  /\ \A i \in 1 .. Len(conts)' : Waits(i, q)' => (i \in 1 .. Len(conts) /\ Waits(i, q))
  /\ pend'[runs[q].socket] = q => pend[runs[q].socket] = q
  /\ armed'[runs[q].socket] = q => armed[runs[q].socket] = q

(* A prologue that is still has not come to life. *)
LEMMA StillLives ==
  ASSUME Shape, Shape', NEW q \in 1 .. Len(runs), Still(q), Live(q)' PROVE Live(q)
<1>1. /\ DOMAIN conts = 1 .. Len(conts) /\ (DOMAIN conts)' = 1 .. Len(conts)'
  BY LenProperties DEF Shape
<1>2. QED
  BY <1>1 DEF Still, Live, Continues, Waits

(* Its timer and its continuations may end without it. *)
LEMMA StillOnce ==
  ASSUME NEW q \in 1 .. Len(runs), Still(q), Once(q) PROVE Once(q)'
BY DEF Still, Once

\* What its end waits for is still on its way.
Awaited(q) ==
  Due(q)' =>
    /\ Due(q)
    /\ pend[runs[q].socket] = q => pend'[runs[q].socket] = q
    /\ armed[runs[q].socket] = q =>
         (armed'[runs[q].socket] = q \/ pend[runs[q].socket] # q)
    /\ \A i \in 1 .. Len(conts) : Waits(i, q) =>
         \/ \E j \in 1 .. Len(conts)' : Waits(j, q)'
         \/ Broken(q)'
    /\ Broken(q) => Broken(q)'

(* An end that is due stays on its way. *)
LEMMA StillEnds ==
  ASSUME NEW q \in 1 .. Len(runs), Still(q), Ends(q), Awaited(q) PROVE Ends(q)'
BY DEF Still, Ends, Due, Awaited

(* A step of none of the prologues, that leaves each one what it waits for. *)
LEMMA NoEnd ==
  ASSUME SecretInv, SecretInv', EndInv, Len(runs') = Len(runs), Len(creds) \in 0 .. Len(creds'),
         \A h \in 1 .. Len(creds) : armed'[h] \in {0, armed[h]},
         \A h \in 1 .. Len(creds') : h \notin 1 .. Len(creds) => armed'[h] = 0,
         \A q \in 1 .. Len(runs) : Still(q) /\ Awaited(q)
  PROVE  EndInv'
<1> USE DEF SecretInv
<1>0. /\ \A h \in 1 .. Len(creds) : armed[h] \in 0 .. Len(runs)
      /\ \A q \in 1 .. Len(runs) : runs[q].socket \in 1 .. Len(creds)
      /\ Len(runs) \in Nat
  BY Entries DEF Owned, SocketsOwn, RunsOwn
<1>1. ArmedOwn'
  <2> SUFFICES ASSUME NEW h \in 1 .. Len(creds'), armed'[h] # 0
               PROVE  runs'[armed'[h]].socket = h /\ runs'[armed'[h]].step = "sent"
    BY DEF ArmedOwn
  <2>1. h \in 1 .. Len(creds) /\ armed'[h] = armed[h] /\ armed[h] \in 1 .. Len(runs)
    BY <1>0
  <2>2. runs[armed[h]].socket = h /\ runs[armed[h]].step = "sent" /\ Still(armed[h])
    BY <2>1 DEF EndInv, ArmedOwn
  <2>3. QED
    BY <2>1, <2>2 DEF Still
<1>2. Alone'
  <2> SUFFICES ASSUME NEW r \in 1 .. Len(runs), NEW q \in 1 .. Len(runs), r # q,
                      runs'[r].socket = runs'[q].socket, Live(r)', Live(q)'
               PROVE  runs'[r].overlapped
    BY DEF Alone
  <2>1. Live(r) /\ Live(q)
    BY StillLives
  <2>2. runs[r].socket = runs[q].socket
    BY DEF Still
  <2>3. runs[r].overlapped
    BY <2>1, <2>2 DEF EndInv, Alone
  <2>4. QED
    BY <2>3 DEF Still
<1>3. ASSUME NEW q \in 1 .. Len(runs) PROVE Ends(q)' /\ Once(q)'
  <2>1. Once(q)'
    BY StillOnce DEF EndInv
  <2>2. Ends(q)'
    BY StillEnds DEF EndInv
  <2>3. QED
    BY <2>1, <2>2
<1>4. QED
  BY <1>1, <1>2, <1>3 DEF EndInv

(* A step of a live prologue ends no other one's: those of its socket that are live are *)
(* marked.                                                                              *)
LEMMA OneEnd ==
  ASSUME SecretInv, SecretInv', EndInv, UNCHANGED <<cur, creds>>, Len(runs') = Len(runs),
         NEW r \in 1 .. Len(runs), Live(r),
         runs'[r].socket = runs[r].socket, runs'[r].overlapped = runs[r].overlapped,
         runs[r].step = "sent" => runs'[r].step = "sent",
         Ends(r)', Once(r)',
         \A q \in 1 .. Len(runs) : q # r =>
           /\ Still(q)
           /\ \A i \in 1 .. Len(conts) : Waits(i, q) => (i \in 1 .. Len(conts)' /\ Waits(i, q)')
           /\ Broken(q) => Broken(q)',
         \A h \in 1 .. Len(creds) :
           /\ h # runs[r].socket => pend'[h] = pend[h] /\ armed'[h] = armed[h]
           /\ \/ armed'[h] \in {0, armed[h]}
              \/ armed'[h] = r /\ h = runs[r].socket /\ runs'[r].step = "sent"
  PROVE  EndInv'
<1> USE DEF SecretInv
<1>0. /\ \A h \in 1 .. Len(creds) : armed[h] \in 0 .. Len(runs)
      /\ \A q \in 1 .. Len(runs) : runs[q].socket \in 1 .. Len(creds)
      /\ Len(runs) \in Nat /\ Len(creds) \in Nat
  BY Entries DEF Owned, SocketsOwn, RunsOwn
<1>1. ArmedOwn'
  <2> SUFFICES ASSUME NEW h \in 1 .. Len(creds), armed'[h] # 0
               PROVE  runs'[armed'[h]].socket = h /\ runs'[armed'[h]].step = "sent"
    BY DEF ArmedOwn
  <2>1. CASE armed'[h] = r /\ h = runs[r].socket /\ runs'[r].step = "sent"
    BY <2>1
  <2>2. CASE armed'[h] = armed[h]
    <3>1. armed[h] \in 1 .. Len(runs) /\ runs[armed[h]].socket = h /\ runs[armed[h]].step = "sent"
      BY <1>0, <2>2 DEF EndInv, ArmedOwn
    <3>2. armed[h] # r => Still(armed[h])
      BY <3>1
    <3>3. QED
      BY <2>2, <3>1, <3>2 DEF Still
  <2>3. QED
    BY <2>1, <2>2
<1>2. Alone'
  <2> SUFFICES ASSUME NEW p \in 1 .. Len(runs), NEW q \in 1 .. Len(runs), p # q,
                      runs'[p].socket = runs'[q].socket, Live(p)', Live(q)'
               PROVE  runs'[p].overlapped
    BY DEF Alone
  <2>1. \A s \in {p, q} : s # r => (Still(s) /\ Live(s))
    BY StillLives
  <2>2. Live(p) /\ Live(q)
    BY <2>1
  <2>3. runs[p].socket = runs[q].socket
    BY <2>1 DEF Still
  <2>4. runs[p].overlapped
    BY <2>2, <2>3 DEF EndInv, Alone
  <2>5. QED
    BY <2>1, <2>4 DEF Still
<1>3. ASSUME NEW q \in 1 .. Len(runs), q # r PROVE Ends(q)' /\ Once(q)'
  <2>1. Still(q) /\ Ends(q) /\ Once(q)
    BY <1>3 DEF EndInv
  <2>2. Once(q)'
    BY <2>1, StillOnce
  <2>3. CASE ~Live(q)
    <3>1. runs[q].step \notin {"querying", "sent"}
      BY <2>3 DEF Live, Working
    <3>2. QED
      BY <2>1, <2>2, <3>1 DEF Still, Ends
  <2>4. CASE Live(q) /\ runs[q].socket = runs[r].socket
    <3>1. runs[q].overlapped
      BY <1>3, <2>4 DEF EndInv, Alone
    <3>2. ~Due(q)'
      BY <2>1, <3>1 DEF Due, Still
    <3>3. QED
      BY <2>1, <2>2, <3>2, StillEnds DEF Awaited
  <2>5. CASE runs[q].socket # runs[r].socket
    <3>1. pend'[runs[q].socket] = pend[runs[q].socket] /\ armed'[runs[q].socket] = armed[runs[q].socket]
      BY <1>0, <2>5
    <3>2. Due(q)' => Due(q)
      BY <2>1 DEF Due, Still
    <3>3. QED
      BY <1>3, <2>1, <2>2, <3>1, <3>2, StillEnds DEF Awaited
  <2>6. QED
    BY <2>2, <2>3, <2>4, <2>5
<1>4. QED
  BY <1>1, <1>2, <1>3 DEF EndInv

(* A step of one prologue is none of the others. *)
LEMMA OthersStill ==
  ASSUME Shape, Owned, NEW r \in 1 .. Len(runs), NEW e \in Run, runs' = [runs EXCEPT ![r] = e],
         \A h \in 1 .. Len(creds) : pend'[h] \in {0, pend[h], r} /\ armed'[h] \in {0, armed[h], r},
         \A q \in 1 .. Len(runs), i \in 1 .. Len(conts') :
           (q # r /\ Waits(i, q)') => (i \in 1 .. Len(conts) /\ Waits(i, q))
  PROVE  /\ Len(runs') = Len(runs) /\ runs'[r] = e
         /\ \A q \in 1 .. Len(runs) : q # r => Still(q)
<1>1. /\ Len(runs') = Len(runs) /\ runs'[r] = e
      /\ \A q \in 1 .. Len(runs) : q # r => runs'[q] = runs[q]
  BY EntryReplaced DEF Shape
<1>2. /\ \A q \in 1 .. Len(runs) : runs[q].socket \in 1 .. Len(creds) /\ q # 0
  BY Entries DEF Owned, RunsOwn
<1>3. QED
  BY <1>1, <1>2 DEF Still

(* The steps of a prologue until it was answered. *)
LEMMA WorkEnds ==
  ASSUME SecretInv, SecretInv', EndInv, NEW r \in 1 .. Len(runs),
         \/ CredsSaved(r) \/ CredsNotWritten(r) \/ Signed(r) \/ NotSigned(r) \/ RefFetched(r)
         \/ PrologueAnswered(r) \/ QueryRejected(r)
  PROVE  EndInv'
<1> USE DEF SecretInv
<1> DEFINE h == runs[r].socket
<1>0. /\ runs[r] \in Run /\ h \in 1 .. Len(creds) /\ r # 0 /\ runs[r].told \in Nat
      /\ pend \in [1 .. Len(creds) -> Nat] /\ armed \in [1 .. Len(creds) -> Nat]
      /\ key \in [1 .. Len(creds) -> Nat]
      /\ Ends(r) /\ Once(r)
      /\ Len(runs) \in Nat
  <2>1. runs[r] \in Run /\ Len(runs) \in Nat
    BY Entries
  <2>2. runs[r].told \in Nat
    BY <2>1 DEF Run
  <2>3. h \in 1 .. Len(creds) /\ Ends(r) /\ Once(r)
    BY DEF Owned, RunsOwn, EndInv
  <2>4. r # 0
    BY <2>1
  <2>5. QED
    BY <2>1, <2>2, <2>3, <2>4 DEF Shape
<1>1. /\ UNCHANGED <<cur, creds, conts, key>> /\ runs[r].step \in Working
      /\ pend' \in {pend, [pend EXCEPT ![h] = r]} /\ armed' \in {armed, [armed EXCEPT ![h] = r]}
  BY DEF CredsSaved, CredsNotWritten, Signed, NotSigned, RefFetched, PrologueAnswered, QueryRejected,
         hands, Working
<1>2. PICK e \in Run :
        /\ runs' = [runs EXCEPT ![r] = e]
        /\ e.socket = h /\ e.overlapped = runs[r].overlapped /\ e.untimely = runs[r].untimely
        /\ \/ e.step = "failed" /\ e.told = runs[r].told + 1 /\ armed' = armed
           \/ e.step \in {"signing", "fetching"} /\ e.told = runs[r].told /\ armed' = armed
           \/ e.step = "querying" /\ e.told = runs[r].told /\ pend'[h] = r /\ armed' = armed
           \/ /\ e.step = "sent" /\ e.told = runs[r].told /\ runs[r].step = "querying"
              /\ pend' = pend /\ armed'[h] = r
  <2> DEFINE failed == [runs[r] EXCEPT !.step = "failed", !.told = @ + 1]
  <2>1. \A f \in {"signing", "fetching", "sent"} :
          f \in Steps /\ runs[r] \in Run /\ [runs[r] EXCEPT !.step = f] \in Run
    BY <1>0, EntryOf, Zenon DEF Steps, Working
  <2>2. failed \in Run
    BY EntryOf, Zenon
  <2>3. ASSUME runs' = [runs EXCEPT ![r] = failed], armed' = armed
        PROVE  \E e \in Run :
                 /\ runs' = [runs EXCEPT ![r] = e]
                 /\ e.socket = h /\ e.overlapped = runs[r].overlapped /\ e.untimely = runs[r].untimely
                 /\ e.step = "failed" /\ e.told = runs[r].told + 1 /\ armed' = armed
    BY <1>0, <2>2, <2>3 DEF Run
  <2>4. ASSUME NEW f \in {"signing", "fetching", "sent"},
               runs' = [runs EXCEPT ![r] = [runs[r] EXCEPT !.step = f]]
        PROVE  \E e \in Run :
                 /\ runs' = [runs EXCEPT ![r] = e]
                 /\ e.socket = h /\ e.overlapped = runs[r].overlapped /\ e.untimely = runs[r].untimely
                 /\ e.step = f /\ e.told = runs[r].told
    BY <2>1, <2>4 DEF Run
  <2>5. CASE CredsSaved(r)
    <3> DEFINE signing == [runs[r] EXCEPT !.step = "signing", !.asked = TRUE]
    <3>1. runs' = [runs EXCEPT ![r] = signing] /\ signing \in Run /\ armed' = armed
      BY <2>5, EntryOf, Zenon DEF CredsSaved, Sign, hands
    <3>2. /\ signing.socket = h /\ signing.overlapped = runs[r].overlapped
          /\ signing.untimely = runs[r].untimely
          /\ signing.step = "signing" /\ signing.told = runs[r].told
      BY <1>0 DEF Run
    <3> HIDE DEF signing
    <3>3. QED
      BY <3>1, <3>2
  <2>6. CASE CredsNotWritten(r) \/ NotSigned(r) \/ QueryRejected(r)
    <3>1. runs' = [runs EXCEPT ![r] = failed] /\ armed' = armed
      BY <2>6 DEF CredsNotWritten, NotSigned, QueryRejected, Fail, Tell, hands
    <3> HIDE DEF failed
    <3>2. QED
      BY <2>3, <3>1
  <2>7. CASE Signed(r)
    <3>1. runs' = [runs EXCEPT ![r] = [runs[r] EXCEPT !.step = "fetching"]] /\ armed' = armed
      BY <2>7, <2>1, EntryOf, Zenon DEF Signed, hands
    <3>2. QED
      BY <2>4, <3>1
  <2>8. CASE PrologueAnswered(r)
    <3>1. /\ runs' = [runs EXCEPT ![r] = [runs[r] EXCEPT !.step = "sent"]]
          /\ pend' = pend /\ armed' = [armed EXCEPT ![h] = r] /\ runs[r].step = "querying"
      BY <2>8, <2>1, EntryOf, Zenon DEF PrologueAnswered
    <3>2. armed'[h] = r
      BY <1>0, <3>1
    <3>3. QED
      BY <2>4, <3>1, <3>2
  <2>9. CASE RefFetched(r)
    <3> DEFINE querying == [runs[r] EXCEPT !.step = "querying", !.proof = key[h]]
    <3>1. /\ pend' = [pend EXCEPT ![h] = r] /\ armed' = armed
          /\ IF key[h] = 0 THEN Fail(r)
             ELSE runs' = [runs EXCEPT ![r].step = "querying", ![r].proof = key[h]]
      BY <2>9 DEF RefFetched
    <3>2. CASE key[h] = 0
      <4>1. runs' = [runs EXCEPT ![r] = failed]
        BY <3>1, <3>2 DEF Fail, Tell
      <4> HIDE DEF failed
      <4>2. QED
        BY <2>3, <3>1, <4>1
    <3>3. CASE key[h] # 0
      <4>1. key[h] \in Nat
        BY <1>0
      <4>2. runs' = [runs EXCEPT ![r] = querying] /\ querying \in Run
        BY <3>1, <3>3, <4>1, EntryOf, Zenon
      <4>3. /\ querying.socket = h /\ querying.overlapped = runs[r].overlapped
            /\ querying.untimely = runs[r].untimely
            /\ querying.step = "querying" /\ querying.told = runs[r].told
        BY <1>0 DEF Run
      <4>4. pend'[h] = r
        BY <1>0, <3>1
      <4> HIDE DEF querying
      <4>5. QED
        BY <3>1, <4>2, <4>3, <4>4
    <3>4. QED
      BY <3>2, <3>3
  <2>10. QED
    BY <2>5, <2>6, <2>7, <2>8, <2>9
<1>3. /\ \A g \in 1 .. Len(creds) : pend'[g] \in {0, pend[g], r} /\ armed'[g] \in {0, armed[g], r}
      /\ \A g \in 1 .. Len(creds) : g # h => pend'[g] = pend[g] /\ armed'[g] = armed[g]
  BY <1>0, <1>1
<1>4. \A q, i : Waits(i, q)' <=> Waits(i, q)
  BY <1>1 DEF Waits
<1>5. \A q : Broken(q)' <=> Broken(q)
  BY <1>1 DEF Broken
<1>6. /\ Len(runs') = Len(runs) /\ runs'[r] = e
      /\ \A q \in 1 .. Len(runs) : q # r => Still(q)
  BY <1>1, <1>2, <1>3, <1>4, OthersStill
<1>7. Live(r)
  BY <1>1 DEF Live
<1>8. Ends(r)'
  <2>1. (e.step = "sent" /\ Due(r)') => (Due(r) /\ pend[h] = r)
    BY <1>0, <1>1, <1>2, <1>6 DEF Ends, Due
  <2>2. (e.step = "querying" /\ Due(r)') => pend'[h] = r
    BY <1>2
  <2>3. e.step = "failed" => e.told > 0
    BY <1>0, <1>2
  <2>4. e.step = "sent" => pend' = pend /\ armed'[h] = r
    BY <1>2
  <2>5. QED
    BY <1>1, <1>2, <1>6, <2>1, <2>2, <2>3, <2>4 DEF Ends
<1>9. Once(r)'
  <2> SUFFICES ASSUME ~e.overlapped, ~e.untimely
               PROVE  /\ e.told <= 1
                      /\ e.step \in Working => e.told = 0
                      /\ armed'[h] = r =>
                           (e.step = "sent" /\ e.told = 0 /\ \A i \in 1 .. Len(conts) : ~Waits(i, r))
                      /\ \A i \in 1 .. Len(conts) : ~Waits(i, r)
    BY <1>1, <1>2, <1>4, <1>6 DEF Once
  <2>1. /\ runs[r].told = 0 /\ armed[h] # r
        /\ \A i \in 1 .. Len(conts) : ~Waits(i, r)
    BY <1>0, <1>1, <1>2 DEF Once, Working
  <2>2. e.told \in {0, 1} /\ (e.step # "failed" => e.told = 0) /\ (e.step # "sent" => armed' = armed)
    BY <1>2, <2>1
  <2>3. QED
    BY <2>1, <2>2 DEF Working
<1>10. /\ \A q \in 1 .. Len(runs) : q # r =>
            /\ Still(q)
            /\ \A i \in 1 .. Len(conts) : Waits(i, q) => (i \in 1 .. Len(conts)' /\ Waits(i, q)')
            /\ Broken(q) => Broken(q)'
       /\ \A g \in 1 .. Len(creds) :
            /\ g # runs[r].socket => pend'[g] = pend[g] /\ armed'[g] = armed[g]
            /\ \/ armed'[g] \in {0, armed[g]}
               \/ armed'[g] = r /\ g = runs[r].socket /\ runs'[r].step = "sent"
  <2>1. \A g \in 1 .. Len(creds) :
            \/ armed'[g] \in {0, armed[g]}
            \/ armed'[g] = r /\ g = runs[r].socket /\ runs'[r].step = "sent"
    BY <1>2, <1>3, <1>6
  <2>2. QED
    BY <1>1, <1>3, <1>4, <1>5, <1>6, <2>1
<1>11. /\ runs'[r].socket = runs[r].socket /\ runs'[r].overlapped = runs[r].overlapped
       /\ (runs[r].step = "sent" => runs'[r].step = "sent")
  BY <1>1, <1>2, <1>6 DEF Working
<1>12. QED
  BY <1>1, <1>6, <1>7, <1>8, <1>9, <1>10, <1>11, OneEnd

(* What there is to know of a prologue whose number of tellings a step may count up. *)
LEMMA ToldOf ==
  ASSUME Shape, NEW r \in 1 .. Len(runs)
  PROVE  /\ Tell(runs[r]) \in Run /\ Tell(runs[r]).told = runs[r].told + 1
         /\ Tell(runs[r]).socket = runs[r].socket /\ Tell(runs[r]).step = runs[r].step
         /\ Tell(runs[r]).overlapped = runs[r].overlapped
         /\ Tell(runs[r]).untimely = runs[r].untimely
         /\ runs[r].told \in Nat
<1>1. runs[r] \in Run
  BY Entries
<1>2. QED
  BY <1>1, EntryOf, Zenon DEF Tell, Run

(* The timer: the prologue was sent, and has no continuation under way. *)
LEMMA TimerEnds ==
  ASSUME SecretInv, SecretInv', EndInv, NEW h \in 1 .. Len(creds), ContinuationTimesOut(h)
  PROVE  EndInv'
<1> USE DEF SecretInv
<1>r. armed[h] \in 1 .. Len(runs) /\ Len(runs) \in Nat
  <2>1. armed[h] \in 0 .. Len(runs) /\ armed[h] # 0 /\ Len(runs) \in Nat
    BY Entries DEF Owned, SocketsOwn, ContinuationTimesOut
  <2>2. QED
    BY <2>1
<1>p. PICK r \in 1 .. Len(runs) : r = armed[h]
  BY <1>r
<1> DEFINE e == Tell(runs[r])
<1>0. /\ armed \in [1 .. Len(creds) -> Nat] /\ r \in 1 .. Len(runs)
      /\ runs[r].socket = h /\ runs[r].step = "sent" /\ Once(r)
      /\ \A q \in 1 .. Len(runs) : q # 0
      /\ Len(runs) \in Nat
  <2>1. armed \in [1 .. Len(creds) -> Nat]
    BY DEF Shape
  <2>2. runs[r].socket = h /\ runs[r].step = "sent" /\ Once(r)
    <3>1. armed[h] # 0
      BY DEF ContinuationTimesOut
    <3>2. QED
      BY <1>p, <3>1 DEF EndInv, ArmedOwn
  <2>3. \A q \in 1 .. Len(runs) : q # 0
    BY <1>r
  <2>4. QED
    BY <1>r, <2>1, <2>2, <2>3
<1>1. /\ UNCHANGED <<cur, creds, conts, pend>>
      /\ runs' = [runs EXCEPT ![r] = e] /\ armed' = [armed EXCEPT ![h] = 0]
  BY <1>p DEF ContinuationTimesOut
<1>2. /\ e \in Run /\ e.told = runs[r].told + 1 /\ e.socket = h /\ e.step = "sent"
      /\ e.overlapped = runs[r].overlapped /\ e.untimely = runs[r].untimely
      /\ runs[r].told \in Nat
  BY <1>0, ToldOf
<1>3. \A g \in 1 .. Len(creds) :
        /\ pend'[g] = pend[g] /\ armed'[g] \in {0, armed[g]} /\ (g # h => armed'[g] = armed[g])
  BY <1>0, <1>1
<1>4. armed'[h] # r
  BY <1>0, <1>1
<1> HIDE DEF e
<1>5. \A q, i : Waits(i, q)' <=> Waits(i, q)
  BY <1>1 DEF Waits
<1>6. \A q : Broken(q)' <=> Broken(q)
  BY <1>1 DEF Broken
<1>7. /\ Len(runs') = Len(runs) /\ runs'[r] = e
      /\ \A q \in 1 .. Len(runs) : q # r => Still(q)
  BY <1>0, <1>1, <1>2, <1>3, <1>5, OthersStill
<1>8. Live(r)
  BY <1>0 DEF Live
<1>9. Ends(r)'
  <2>1. e.told > 0 /\ e.step = "sent"
    BY <1>0, <1>2
  <2>2. QED
    BY <1>7, <2>1 DEF Ends, Due
<1>10. Once(r)'
  <2> SUFFICES ASSUME ~e.overlapped, ~e.untimely
               PROVE  e.told = 1 /\ \A i \in 1 .. Len(conts) : ~Waits(i, r)
    BY <1>1, <1>2, <1>4, <1>5, <1>7 DEF Once, Working
  <2>1. runs[r].told = 0 /\ \A i \in 1 .. Len(conts) : ~Waits(i, r)
    BY <1>0, <1>2, <1>p DEF Once
  <2>2. QED
    BY <1>2, <2>1
<1>11. /\ runs'[r].socket = runs[r].socket /\ runs'[r].overlapped = runs[r].overlapped
       /\ runs[r].step = "sent" => runs'[r].step = "sent"
  BY <1>0, <1>2, <1>7
<1>12. QED
  BY <1>0, <1>1, <1>3, <1>5, <1>6, <1>7, <1>8, <1>9, <1>10, <1>11, OneEnd

(* A continuation of a prologue takes a step. *)
LEMMA ContMoves ==
  ASSUME SecretInv, NEW i \in 1 .. Len(conts), NEW step \in {"request", "done", "failed"},
         conts[i].step \in {"nonce", "request"},
         conts' = [conts EXCEPT ![i].step = step]
  PROVE  /\ conts[i].run \in 1 .. Len(runs) /\ runs[conts[i].run].socket = conts[i].socket
         /\ Waits(i, conts[i].run) /\ Live(conts[i].run)
         /\ Len(conts') = Len(conts)
         /\ \A q \in Nat : \A j \in 1 .. Len(conts) :
              Waits(j, q)' <=> (Waits(j, q) /\ (j = i => step = "request"))
         /\ \A q \in Nat : Broken(q)' <=> (Broken(q) \/ (q = conts[i].run /\ step = "failed"))
<1> USE DEF SecretInv
<1>0. /\ conts[i].run \in 1 .. Len(runs) /\ runs[conts[i].run].socket = conts[i].socket
      /\ Live(conts[i].run)
      /\ conts \in Seq(Cont) /\ conts[i] \in Cont /\ DOMAIN conts = 1 .. Len(conts)
  BY ContsStand, Entries DEF Shape
<1> DEFINE c == [conts[i] EXCEPT !.step = step]
<1>1. c \in Cont /\ c.run = conts[i].run /\ c.step = step
  BY <1>0 DEF Cont
<1>2. conts' = [conts EXCEPT ![i] = c]
  BY <1>0
<1> HIDE DEF c
<1>3. /\ Len(conts') = Len(conts) /\ conts'[i] = c
      /\ \A j \in 1 .. Len(conts) : j # i => conts'[j] = conts[j]
  BY <1>0, <1>1, <1>2, EntryReplaced
<1>4. \A q \in Nat : \A j \in 1 .. Len(conts) :
        Waits(j, q)' <=> (Waits(j, q) /\ (j = i => step = "request"))
  BY <1>1, <1>3 DEF Waits
<1>5. \A q \in Nat : Broken(q)' <=> (Broken(q) \/ (q = conts[i].run /\ step = "failed"))
  BY <1>1, <1>3 DEF Broken
<1>6. QED
  BY <1>0, <1>3, <1>4, <1>5 DEF Waits

(* A continuation goes on, or ends: its prologue's is told then, for the first time unless *)
(* it was untimely.                                                                        *)
LEMMA ContinuationEnds ==
  ASSUME SecretInv, SecretInv', EndInv, NEW i \in 1 .. Len(conts),
         NonceSent(i) \/ RequestSent(i) \/ ContinuationRejected(i)
  PROVE  EndInv'
<1> USE DEF SecretInv
<1>p. PICK r : r = conts[i].run
  OBVIOUS
<1>s. PICK s \in {"request", "done", "failed"} :
        /\ conts' = [conts EXCEPT ![i].step = s] /\ conts[i].step \in {"nonce", "request"}
        /\ \/ s = "request" /\ NonceSent(i)
           \/ s = "done" /\ RequestSent(i)
           \/ s = "failed" /\ ContinuationRejected(i)
  BY DEF NonceSent, RequestSent, ContinuationRejected
<1>0. /\ r \in 1 .. Len(runs) /\ runs[r].socket = conts[i].socket
      /\ Waits(i, r) /\ Live(r) /\ Len(conts') = Len(conts)
      /\ \A q \in Nat : \A j \in 1 .. Len(conts) :
           Waits(j, q)' <=> (Waits(j, q) /\ (j = i => s = "request"))
      /\ \A q \in Nat : Broken(q)' <=> (Broken(q) \/ (q = r /\ s = "failed"))
  BY <1>p, <1>s, ContMoves
<1>1. /\ pend \in [1 .. Len(creds) -> Nat] /\ armed \in [1 .. Len(creds) -> Nat]
      /\ runs[r] \in Run /\ runs[r].socket \in 1 .. Len(creds)
      /\ Len(runs) \in Nat /\ Ends(r) /\ Once(r) /\ creds[runs[r].socket] \in Nat
  BY <1>0, Entries DEF Shape, Owned, RunsOwn, EndInv
<1>2. UNCHANGED <<cur, creds, armed>>
  BY DEF NonceSent, RequestSent, ContinuationRejected, hands
<1>3. PICK e \in Run :
        /\ runs' = [runs EXCEPT ![r] = e]
        /\ e.socket = runs[r].socket /\ e.overlapped = runs[r].overlapped
        /\ e.untimely = runs[r].untimely /\ e.step = runs[r].step /\ runs[r].told \in Nat
        /\ \/ s \in {"request", "failed"} /\ e.told = runs[r].told /\ pend' = pend
           \/ /\ s = "done" /\ e.told = runs[r].told + 1
              /\ pend' = [pend EXCEPT ![runs[r].socket] = 0]
  <2>1. CASE NonceSent(i) /\ s = "request"
    <3> DEFINE e == [runs[r] EXCEPT !.carried = creds[cur]]
    <3>1. cur = runs[r].socket /\ runs' = [runs EXCEPT ![r].carried = creds[cur]] /\ pend' = pend
      BY <2>1, <1>0, <1>p DEF NonceSent, hands
    <3>2. e \in Run /\ runs' = [runs EXCEPT ![r] = e]
      BY <1>0, <1>1, <3>1, EntryOf, Zenon
    <3>3. /\ e.socket = runs[r].socket /\ e.overlapped = runs[r].overlapped
          /\ e.untimely = runs[r].untimely /\ e.step = runs[r].step /\ e.told = runs[r].told
          /\ runs[r].told \in Nat
      BY <1>1 DEF Run
    <3> HIDE DEF e
    <3>4. QED
      BY <2>1, <3>1, <3>2, <3>3
  <2>2. CASE RequestSent(i) /\ s = "done"
    <3> DEFINE e == Tell(runs[r])
    <3>1. /\ cur = runs[r].socket /\ runs' = [runs EXCEPT ![r] = e]
          /\ pend' = [pend EXCEPT ![runs[r].socket] = 0]
      BY <2>2, <1>0, <1>p DEF RequestSent
    <3>2. /\ e \in Run /\ e.socket = runs[r].socket /\ e.overlapped = runs[r].overlapped
          /\ e.untimely = runs[r].untimely /\ e.step = runs[r].step /\ e.told = runs[r].told + 1
          /\ runs[r].told \in Nat
      BY <1>0, ToldOf
    <3> HIDE DEF e
    <3>3. QED
      BY <2>2, <3>1, <3>2
  <2>3. CASE ContinuationRejected(i) /\ s = "failed"
    <3>1. runs' = runs /\ pend' = pend /\ runs = [runs EXCEPT ![r] = runs[r]]
      <4>1. runs' = runs /\ pend' = pend
        BY <2>3 DEF ContinuationRejected, hands
      <4>2. runs = [runs EXCEPT ![r] = runs[r]]
        BY <1>0 DEF Shape
      <4>3. QED
        BY <4>1, <4>2
    <3>2. runs[r].told \in Nat
      BY <1>1 DEF Run
    <3>3. QED
      BY <1>1, <2>3, <3>1, <3>2
  <2>4. QED
    BY <1>s, <2>1, <2>2, <2>3
<1>4. \A g \in 1 .. Len(creds) :
        /\ pend'[g] \in {0, pend[g]} /\ armed'[g] = armed[g]
        /\ g # runs[r].socket => pend'[g] = pend[g]
  BY <1>1, <1>2, <1>3
<1>5. /\ Len(runs') = Len(runs) /\ runs'[r] = e
      /\ \A q \in 1 .. Len(runs) : q # r => Still(q)
  <2>1. \A q \in 1 .. Len(runs), j \in 1 .. Len(conts') :
          (q # r /\ Waits(j, q)') => (j \in 1 .. Len(conts) /\ Waits(j, q))
    <3>1. \A q \in 1 .. Len(runs) : q \in Nat
      BY <1>1
    <3>2. QED
      BY <1>0, <3>1
  <2>2. \A g \in 1 .. Len(creds) : pend'[g] \in {0, pend[g], r} /\ armed'[g] \in {0, armed[g], r}
    BY <1>4
  <2>3. QED
    BY <1>0, <1>3, <2>1, <2>2, OthersStill
<1>6. Ends(r)'
  <2>1. CASE s = "done"
    BY <1>3, <1>5, <2>1, <1>0, <1>1 DEF Ends, Due
  <2>2. CASE s = "request"
    <3>1. Waits(i, r)'
      BY <1>0, <2>2
    <3>2. QED
      BY <1>0, <1>1, <1>2, <1>3, <1>5, <2>2, <3>1 DEF Ends, Due
  <2>3. CASE s = "failed"
    <3>1. Broken(r)'
      BY <1>0, <2>3
    <3>2. QED
      BY <1>0, <1>1, <1>2, <1>3, <1>5, <2>3, <3>1 DEF Ends, Due
  <2>4. QED
    BY <2>1, <2>2, <2>3
<1>7. Once(r)'
  <2> SUFFICES ASSUME ~e.overlapped, ~e.untimely
               PROVE  /\ e.told <= 1
                      /\ e.step \notin Working
                      /\ armed[e.socket] # r
                      /\ \A j \in 1 .. Len(conts) : Waits(j, r)' =>
                           /\ e.step = "sent" /\ e.told = 0
                           /\ \A k \in 1 .. Len(conts) : Waits(k, r)' => j = k
    BY <1>0, <1>2, <1>5 DEF Once
  <2>1. /\ runs[r].step = "sent" /\ runs[r].told = 0 /\ armed[runs[r].socket] # r
        /\ \A j \in 1 .. Len(conts) : Waits(j, r) => j = i
    BY <1>0, <1>1, <1>3 DEF Once
  <2>2. \A j \in 1 .. Len(conts) : Waits(j, r)' => (j = i /\ s = "request")
    BY <1>0, <2>1
  <2>3. QED
    BY <1>3, <2>1, <2>2 DEF Working
<1>8. \A q \in 1 .. Len(runs) : q # r =>
        /\ Still(q)
        /\ \A j \in 1 .. Len(conts) : Waits(j, q) => (j \in 1 .. Len(conts)' /\ Waits(j, q)')
        /\ Broken(q) => Broken(q)'
  <2>1. \A q \in 1 .. Len(runs) : q # r => \A j \in 1 .. Len(conts) : Waits(j, q) => j # i
    BY <1>p DEF Waits
  <2>2. \A q \in 1 .. Len(runs) : q \in Nat
    BY <1>1
  <2>3. \A q \in Nat : Broken(q) => Broken(q)'
    BY <1>0
  <2>4. \A q \in 1 .. Len(runs) : q # r =>
          \A j \in 1 .. Len(conts) : Waits(j, q) => (j \in 1 .. Len(conts)' /\ Waits(j, q)')
    BY <1>0, <2>1, <2>2
  <2>5. QED
    BY <1>5, <2>2, <2>3, <2>4
<1>9. QED
  BY <1>0, <1>2, <1>3, <1>4, <1>5, <1>6, <1>7, <1>8, OneEnd

(* A continuation comes: it is of the prologue that is pending, if one is. *)
LEMMA BeginEnds ==
  ASSUME SecretInv, SecretInv', EndInv, Continuation PROVE EndInv'
<1> USE DEF SecretInv
<1>0. /\ cur \in 1 .. Len(creds) /\ UNCHANGED <<cur, creds, pend>>
      /\ armed' = [armed EXCEPT ![cur] = 0]
      /\ pend \in [1 .. Len(creds) -> Nat] /\ armed \in [1 .. Len(creds) -> Nat]
      /\ Len(runs) \in Nat /\ Len(creds) \in Nat /\ Len(conts) \in Nat
      /\ conts \in Seq(Cont)
      /\ \A q \in 1 .. Len(runs) : runs[q] \in Run /\ runs[q].socket \in 1 .. Len(creds)
  <2>1. /\ Len(runs) \in Nat /\ Len(creds) \in Nat /\ Len(conts) \in Nat
        /\ \A q \in 1 .. Len(runs) : runs[q] \in Run
    BY Entries
  <2>2. cur # 0 /\ UNCHANGED <<cur, creds, pend>> /\ armed' = [armed EXCEPT ![cur] = 0]
    BY DEF Continuation, Begins
  <2>3. cur \in 1 .. Len(creds)
    BY <2>1, <2>2 DEF Shape
  <2>4. QED
    BY <2>1, <2>2, <2>3 DEF Shape, Owned, RunsOwn
<1>1. \A g \in 1 .. Len(creds) :
        /\ pend'[g] = pend[g] /\ armed'[g] \in {0, armed[g]} /\ (g # cur => armed'[g] = armed[g])
  BY <1>0
<1>2. CASE pend[cur] = 0
  <2>1. UNCHANGED <<runs, conts>>
    BY <1>2 DEF Continuation, Begins
  <2>2. /\ \A q, i : Waits(i, q)' <=> Waits(i, q)
        /\ \A q : Broken(q)' <=> Broken(q)
    BY <2>1 DEF Waits, Broken
  <2>3. ASSUME NEW q \in 1 .. Len(runs) PROVE Still(q)
    <3>1. armed'[runs[q].socket] = q => armed[runs[q].socket] = q
      BY <1>0, <1>1
    <3>2. QED
      BY <1>0, <2>1, <2>2, <3>1 DEF Still
  <2>4. ASSUME NEW q \in 1 .. Len(runs) PROVE Awaited(q)
    <3>1. Due(q)' => Due(q)
      BY <1>0, <2>1 DEF Due
    <3>2. armed[runs[q].socket] = q =>
            (armed'[runs[q].socket] = q \/ pend[runs[q].socket] # q)
      BY <1>0, <1>1, <1>2
    <3>3. QED
      BY <1>0, <2>1, <2>2, <3>1, <3>2 DEF Awaited
  <2>5. QED
    BY <1>0, <1>1, <2>1, <2>3, <2>4, NoEnd
<1>3. CASE pend[cur] # 0
  <2>p. PICK r \in 1 .. Len(runs) : r = pend[cur] /\ runs[r].socket = cur
    BY <1>0, <1>3 DEF Owned, SocketsOwn
  <2> DEFINE b == runs[r].untimely \/ Untimely(r)
             e == [runs[r] EXCEPT !.untimely = b]
  <2>1. PICK c \in Cont : /\ conts' = Append(conts, c) /\ c.run = r /\ c.step \in {"nonce", "failed"}
                          /\ runs' = [runs EXCEPT ![r] = e]
    <3>1. PICK step \in {"nonce", "failed"} :
            /\ conts' = Append(conts, [socket |-> cur, run |-> r, step |-> step])
            /\ runs' = [runs EXCEPT ![r] = e]
      BY <1>3, <2>p DEF Continuation, Begins
    <3>2. [socket |-> cur, run |-> r, step |-> step] \in Cont
      BY <1>0 DEF Cont
    <3> HIDE DEF e
    <3>3. QED
      BY <3>1, <3>2
  <2>n. PICK new : new = Len(conts) + 1
    OBVIOUS
  <2>2. /\ Len(conts') = new /\ conts'[new] = c
        /\ \A j \in 1 .. Len(conts) : conts'[j] = conts[j]
    BY <1>0, <2>1, <2>n, EntryAdded
  <2>3. /\ \A j \in 1 .. Len(conts') : j = new \/ j \in 1 .. Len(conts)
        /\ \A j \in 1 .. Len(conts) : j \in 1 .. Len(conts')
        /\ new \in 1 .. Len(conts')
    BY <1>0, <2>2, <2>n
  <2>4. /\ \A q : \A j \in 1 .. Len(conts) : Waits(j, q)' <=> Waits(j, q)
        /\ \A q : Waits(new, q)' <=> (q = r /\ c.step = "nonce")
    BY <2>1, <2>2 DEF Waits
  <2>5. /\ \A q : Broken(q) => Broken(q)'
        /\ c.step = "failed" => Broken(r)'
    <3>1. ASSUME NEW q, Broken(q) PROVE Broken(q)'
      <4>1. PICK j \in 1 .. Len(conts) : conts[j].run = q /\ conts[j].step = "failed"
        BY <3>1 DEF Broken
      <4>2. j \in 1 .. Len(conts') /\ conts'[j] = conts[j]
        BY <2>2, <2>3
      <4>3. QED
        BY <4>1, <4>2 DEF Broken
    <3>2. ASSUME c.step = "failed" PROVE Broken(r)'
      BY <2>1, <2>2, <2>3, <3>2 DEF Broken
    <3>3. QED
      BY <3>1, <3>2
  <2>6. /\ e \in Run /\ e.socket = cur /\ e.overlapped = runs[r].overlapped /\ e.step = runs[r].step
        /\ e.told = runs[r].told /\ (e.untimely <=> b)
    <3>1. b \in BOOLEAN
      OBVIOUS
    <3> HIDE DEF b
    <3>2. runs[r] \in Run /\ runs[r].socket = cur
      BY <1>0, <2>p
    <3>3. QED
      BY <3>1, <3>2 DEF Run
  <2> HIDE DEF e
  <2>7. /\ Len(runs') = Len(runs) /\ runs'[r] = e
        /\ \A q \in 1 .. Len(runs) : q # r => Still(q)
    <3>1. \A q \in 1 .. Len(runs), i \in 1 .. Len(conts') :
            (q # r /\ Waits(i, q)') => (i \in 1 .. Len(conts) /\ Waits(i, q))
      BY <2>3, <2>4
    <3>2. \A h \in 1 .. Len(creds) : pend'[h] \in {0, pend[h], r} /\ armed'[h] \in {0, armed[h], r}
      BY <1>1
    <3>3. QED
      BY <2>1, <2>6, <3>1, <3>2, OthersStill
  <2>8. Live(r)
    BY <2>p DEF Live
  <2>9. Ends(r)'
    <3>1. Ends(r)
      BY DEF EndInv
    <3>2. \/ Broken(r)'
          \/ \E j \in 1 .. Len(conts') : Waits(j, r)'
      BY <2>1, <2>3, <2>4, <2>5
    <3>3. QED
      BY <1>0, <2>p, <2>6, <2>7, <3>1, <3>2 DEF Ends, Due
  <2>10. Once(r)'
    <3> SUFFICES ASSUME ~e.overlapped, ~b
                 PROVE  /\ e.step = "sent" /\ e.told = 0 /\ armed'[cur] # r
                        /\ \A i \in 1 .. Len(conts') : Waits(i, r)' => i = new
      BY <2>6, <2>7 DEF Once, Working
    <3>1. runs[r].step = "sent" /\ runs[r].told = 0 /\ ~Continues(r)
      BY DEF Untimely
    <3>2. \A i \in 1 .. Len(conts) : ~Waits(i, r)
      BY <3>1, Entries DEF Continues, Waits
    <3>3. \A i \in 1 .. Len(conts') : Waits(i, r)' => i = new
      BY <2>3, <2>4, <3>2
    <3>4. armed'[cur] # r
      BY <1>0
    <3>5. QED
      BY <2>6, <3>1, <3>3, <3>4
  <2>11. \A q \in 1 .. Len(runs) : q # r =>
           /\ Still(q)
           /\ \A i \in 1 .. Len(conts) : Waits(i, q) => (i \in 1 .. Len(conts)' /\ Waits(i, q)')
           /\ Broken(q) => Broken(q)'
    BY <2>3, <2>4, <2>5, <2>7
  <2>12. /\ runs'[r].socket = runs[r].socket /\ runs'[r].overlapped = runs[r].overlapped
         /\ (runs[r].step = "sent" => runs'[r].step = "sent")
    BY <2>p, <2>6, <2>7
  <2>13. \A h \in 1 .. Len(creds) :
           /\ h # runs[r].socket => pend'[h] = pend[h] /\ armed'[h] = armed[h]
           /\ \/ armed'[h] \in {0, armed[h]}
              \/ armed'[h] = r /\ h = runs[r].socket /\ runs'[r].step = "sent"
    BY <1>1, <2>p
  <2>14. QED
    BY <1>0, <2>7, <2>8, <2>9, <2>10, <2>11, <2>12, <2>13, OneEnd
<1>4. QED
  BY <1>2, <1>3

(* A socket is made or torn down: nothing is due on the one there was. *)
LEMMA TeardownEnds ==
  ASSUME SecretInv, SecretInv', EndInv, Initialize \/ Destroy PROVE EndInv'
<1> USE DEF SecretInv
<1>0. /\ pend \in [1 .. Len(creds) -> Nat] /\ armed \in [1 .. Len(creds) -> Nat]
      /\ Len(runs) \in Nat /\ Len(creds) \in Nat
      /\ \A q \in 1 .. Len(runs) : runs[q].socket \in 1 .. Len(creds) /\ q # 0
  BY Entries DEF Shape, Owned, RunsOwn
<1>1. /\ conts' = conts /\ Len(runs') = Len(runs)
      /\ Len(creds) \in 0 .. Len(creds') /\ cur' \notin 1 .. Len(creds)
      /\ \A h \in 1 .. Len(creds) : pend'[h] \in {0, pend[h]} /\ armed'[h] \in {0, armed[h]}
      /\ \A h \in 1 .. Len(creds') : h \notin 1 .. Len(creds) => armed'[h] = 0
      /\ \A q \in 1 .. Len(runs) :
           /\ runs'[q].socket = runs[q].socket /\ runs'[q].step = runs[q].step
           /\ runs'[q].told = runs[q].told /\ runs'[q].untimely = runs[q].untimely
           /\ runs'[q].overlapped = runs[q].overlapped
  <2>1. CASE Initialize
    <3>1. conts' = conts /\ cur' = Len(creds) + 1 /\ creds' = Append(creds, disk)
      BY <2>1 DEF Initialize
    <3>2. Len(creds') = Len(creds) + 1
      <4>1. creds \in Seq(Nat) /\ disk \in Nat
        BY <1>0 DEF Shape, Owned, Fresh
      <4>2. QED
        BY <3>1, <4>1, EntryAdded
    <3>3. /\ Len(creds) \in 0 .. Len(creds') /\ cur' \notin 1 .. Len(creds)
          /\ \A h \in 1 .. Len(creds') : h \notin 1 .. Len(creds) => h = Len(creds) + 1
      BY <1>0, <3>1, <3>2
    <3>4. QED
      BY <2>1, <3>1, <3>3, SocketMade
  <2>2. CASE Destroy
    <3>1. /\ UNCHANGED <<conts, runs, creds>> /\ cur' = 0
          /\ pend' = Disposed(pend) /\ armed' = Disposed(armed)
      BY <2>2 DEF Destroy
    <3>2. \A h \in 1 .. Len(creds) : pend'[h] \in {0, pend[h]} /\ armed'[h] \in {0, armed[h]}
      BY <1>0, <3>1 DEF Disposed
    <3>3. Len(creds) \in 0 .. Len(creds') /\ cur' \notin 1 .. Len(creds)
      BY <1>0, <3>1
    <3>4. QED
      BY <3>1, <3>2, <3>3
  <2>3. QED
    BY <2>1, <2>2
<1>2. ASSUME NEW q \in 1 .. Len(runs) PROVE Still(q) /\ Awaited(q)
  <2>1. ~Due(q)'
    BY <1>0, <1>1 DEF Due
  <2>2. /\ pend'[runs[q].socket] = q => pend[runs[q].socket] = q
        /\ armed'[runs[q].socket] = q => armed[runs[q].socket] = q
    BY <1>0, <1>1
  <2>3. \A i \in 1 .. Len(conts') : Waits(i, q)' => (i \in 1 .. Len(conts) /\ Waits(i, q))
    BY <1>1 DEF Waits
  <2>4. QED
    BY <1>1, <2>1, <2>2, <2>3 DEF Still, Awaited
<1>3. QED
  BY <1>1, <1>2, NoEnd

(* A crash ends what was under way, and nobody is left to tell. *)
LEMMA CrashEnds == ASSUME SecretInv, SecretInv', EndInv, Crash PROVE EndInv'
<1> USE DEF SecretInv
<1>1. /\ creds' = creds /\ Len(runs') = Len(runs) /\ Len(conts') = Len(conts) /\ cur' = 0
      /\ \A r \in 1 .. Len(runs) :
           /\ runs'[r].socket = runs[r].socket /\ runs'[r].step \in {"failed", "lost"}
           /\ runs'[r].told = runs[r].told /\ runs'[r].untimely = runs[r].untimely
           /\ runs'[r].overlapped = runs[r].overlapped
           /\ runs'[r].step = "failed" => runs[r].step = "failed"
           /\ runs[r].socket \in 1 .. Len(creds) /\ r # 0
      /\ \A i \in 1 .. Len(conts) : conts'[i].step = "failed"
      /\ \A h \in 1 .. Len(creds) : pend'[h] = 0 /\ armed'[h] = 0
  <2>1. /\ Len(runs) \in Nat /\ Len(creds) \in Nat
        /\ \A r \in 1 .. Len(runs) : runs[r].socket \in 1 .. Len(creds) /\ r # 0
    BY Entries DEF Owned, RunsOwn
  <2>2. \A h \in 1 .. Len(creds) : pend'[h] = 0 /\ armed'[h] = 0
    BY Entries DEF Crash, Shape
  <2>3. creds' = creds /\ cur' = 0
    BY DEF Crash
  <2>4. QED
    BY <2>1, <2>2, <2>3, AllLost
<1>2. \A q : \A i \in 1 .. Len(conts) : ~Waits(i, q)'
  BY <1>1 DEF Waits
<1>3. DOMAIN conts' = 1 .. Len(conts')
  BY LenProperties DEF Shape
<1>4. \A r \in 1 .. Len(runs) : ~Live(r)'
  BY <1>1, <1>2, <1>3 DEF Live, Working, Continues, Waits
<1>5. ArmedOwn' /\ Alone'
  BY <1>1, <1>4 DEF ArmedOwn, Alone
<1>6. ASSUME NEW r \in 1 .. Len(runs) PROVE Ends(r)' /\ Once(r)'
  <2>1. Ends(r) /\ Once(r)
    BY DEF EndInv
  <2>2. Ends(r)'
    BY <1>1, <2>1 DEF Ends
  <2>3. Once(r)'
    BY <1>1, <1>2, <2>1 DEF Once, Working
  <2>4. QED
    BY <2>2, <2>3
<1>7. QED
  BY <1>1, <1>5, <1>6 DEF EndInv

(* A step that moves no prologue, no socket and no continuation. *)
LEMMA QuietEnds ==
  ASSUME SecretInv, SecretInv', EndInv, UNCHANGED <<cur, creds, hands, runs, conts>>
  PROVE  EndInv'
<1>1. /\ UNCHANGED <<cur, creds, runs, conts>> /\ pend' = pend /\ armed' = armed
  BY DEF hands
<1>2. /\ \A q : Live(q)' <=> Live(q)
      /\ \A q : (Ends(q) => Ends(q)') /\ (Once(q) => Once(q)')
  BY <1>1 DEF Live, Continues, Ends, Once, Due, Waits, Broken
<1>3. QED
  BY <1>1, <1>2 DEF EndInv, ArmedOwn, Alone

(* A prologue that begins: it and those of its socket that are live are marked. *)
LEMMA BegunEnds ==
  ASSUME SecretInv, SecretInv', EndInv, cur # 0,
         UNCHANGED <<cur, pend, armed, conts>>, Len(creds') = Len(creds),
         \/ runs' = Begun("saving", creds[cur])
         \/ runs' = [Begun("failed", creds[cur]) EXCEPT ![Len(runs) + 1] = Tell(@)]
  PROVE  EndInv'
<1> USE DEF SecretInv
<1>n. PICK n : n = Len(runs) + 1
  OBVIOUS
<1>0. /\ Len(runs) \in Nat /\ Len(creds) \in Nat /\ cur \in 1 .. Len(creds)
      /\ \A h \in 1 .. Len(creds) : pend[h] \in 0 .. Len(runs) /\ armed[h] \in 0 .. Len(runs)
      /\ \A i \in 1 .. Len(conts) : conts[i].run \in 1 .. Len(runs)
      /\ \A r \in 1 .. Len(runs) : runs[r].socket \in 1 .. Len(creds) /\ runs[r].told \in Nat
  <2>1. Len(runs) \in Nat /\ Len(creds) \in Nat /\ \A r \in 1 .. Len(runs) : runs[r] \in Run
    BY Entries
  <2>2. cur \in 1 .. Len(creds)
    BY <2>1 DEF Shape
  <2>3. QED
    BY <2>1, <2>2 DEF Owned, SocketsOwn, ContsOwn, RunsOwn, Run
<1>1. /\ Len(runs') = n
      /\ \A r \in 1 .. Len(runs) :
           /\ runs'[r].socket = runs[r].socket /\ runs'[r].step = runs[r].step
           /\ runs'[r].told = runs[r].told /\ runs'[r].untimely = runs[r].untimely
           /\ runs'[r].overlapped <=> (runs[r].overlapped \/ Overlaps(r))
      /\ runs'[n].socket = cur
      /\ runs'[n].overlapped <=> \E r \in 1 .. Len(runs) : Overlaps(r)
      /\ \/ runs'[n].step = "saving" /\ runs'[n].told = 0
         \/ runs'[n].step = "failed" /\ runs'[n].told = 1
  <2>1. CASE runs' = Begun("saving", creds[cur])
    BY <1>n, <2>1, Marked
  <2>2. CASE runs' = [Begun("failed", creds[cur]) EXCEPT ![Len(runs) + 1] = Tell(@)]
    BY <1>n, <2>2, Marked
  <2>3. QED
    BY <2>1, <2>2
<1>2. /\ \A r \in 1 .. n : r = n \/ (r \in 1 .. Len(runs) /\ r # n)
      /\ \A r \in 0 .. Len(runs) : r # n
      /\ n \in 1 .. n /\ \A r \in 1 .. Len(runs) : r \in 1 .. n
  BY <1>0, <1>n
<1>3. /\ \A q, i : Waits(i, q)' <=> Waits(i, q)
      /\ \A q : Broken(q)' <=> Broken(q)
      /\ \A q : Continues(q)' <=> Continues(q)
  BY DEF Waits, Broken, Continues
<1>4. \A r \in 1 .. Len(runs) : Live(r)' <=> Live(r)
  BY <1>1, <1>3 DEF Live
<1>5. \A r \in 1 .. Len(runs) : Overlaps(r) <=> (runs[r].socket = cur /\ Live(r))
  BY DEF Overlaps, Live
<1>6. ArmedOwn'
  <2>1. \A h \in 1 .. Len(creds) : armed[h] # 0 => armed[h] \in 1 .. Len(runs)
    BY <1>0
  <2>2. QED
    BY <1>1, <2>1 DEF EndInv, ArmedOwn
<1>7. Alone'
  <2> SUFFICES ASSUME NEW r \in 1 .. n, NEW q \in 1 .. n, r # q,
                      runs'[r].socket = runs'[q].socket, Live(r)', Live(q)'
               PROVE  runs'[r].overlapped
    BY <1>1 DEF Alone
  <2>1. CASE r # n /\ q # n
    <3>1. r \in 1 .. Len(runs) /\ q \in 1 .. Len(runs)
      BY <1>2, <2>1
    <3>2. runs[r].overlapped
      BY <1>1, <1>4, <3>1 DEF EndInv, Alone
    <3>3. QED
      BY <1>1, <3>1, <3>2
  <2>2. CASE r = n \/ q = n
    <3>1. PICK p \in {r, q} : p \in 1 .. Len(runs)
      BY <1>2, <2>2
    <3>2. runs[p].socket = cur /\ Live(p)
      BY <1>1, <1>2, <1>4, <2>2, <3>1
    <3>3. Overlaps(p)
      BY <1>5, <3>1, <3>2
    <3>4. p = r \/ r = n
      BY <1>2, <2>2, <3>1
    <3>5. QED
      BY <1>1, <3>1, <3>3, <3>4
  <2>3. QED
    BY <2>1, <2>2
<1>8. ASSUME NEW r \in 1 .. Len(runs) PROVE Ends(r)' /\ Once(r)'
  <2>1. Ends(r) /\ Once(r) /\ (Due(r)' => Due(r))
    BY <1>1 DEF EndInv, Due
  <2>2. Ends(r)'
    BY <1>1, <1>3, <2>1 DEF Ends
  <2>3. Once(r)'
    BY <1>1, <1>3, <2>1 DEF Once
  <2>4. QED
    BY <2>2, <2>3
<1>9. Ends(n)' /\ Once(n)'
  <2>1. armed'[cur] # n /\ \A i \in 1 .. Len(conts) : ~Waits(i, n)'
    BY <1>0, <1>2, <1>3 DEF Waits
  <2>2. Ends(n)'
    BY <1>1 DEF Ends
  <2>3. Once(n)'
    BY <1>1, <2>1 DEF Once, Working
  <2>4. QED
    BY <2>2, <2>3
<1>10. QED
  BY <1>1, <1>2, <1>6, <1>7, <1>8, <1>9 DEF EndInv

(* Every step keeps what the end of a pairing rests on. *)
LEMMA EndStep == ASSUME SecretInv, SecretInv', EndInv, [Next]_vars PROVE EndInv'
<1>0. /\ DOMAIN runs = 1 .. Len(runs) /\ DOMAIN creds = 1 .. Len(creds)
      /\ DOMAIN conts = 1 .. Len(conts)
  BY Entries DEF SecretInv
<1>1. CASE Initialize \/ Destroy
  BY <1>1, TeardownEnds
<1>2. CASE Crash
  BY <1>2, CrashEnds
<1>3. CASE CredsUpdate \/ UNCHANGED vars
  <2>1. UNCHANGED <<cur, creds, hands, runs, conts>>
    BY <1>3 DEF CredsUpdate, vars
  <2>2. QED
    BY <2>1, QuietEnds
<1>4. CASE PrologueUnreadable
  <2>1. /\ cur # 0 /\ UNCHANGED <<cur, pend, armed, conts>> /\ Len(creds') = Len(creds)
        /\ runs' = [Begun("failed", creds[cur]) EXCEPT ![Len(runs) + 1] = Tell(@)]
    BY <1>4 DEF PrologueUnreadable, hands
  <2>2. QED
    BY <2>1, BegunEnds
<1>5. CASE Prologue
  <2>1. /\ cur # 0 /\ UNCHANGED <<cur, pend, armed, conts>>
        /\ creds' = [creds EXCEPT ![cur] = Len(runs) + 2]
        /\ runs' = Begun("saving", creds[cur])
    BY <1>5 DEF Prologue
  <2>2. Len(creds') = Len(creds)
    <3>1. creds \in Seq(Nat) /\ Len(runs) + 2 \in Nat /\ cur \in 1 .. Len(creds)
      BY <2>1, Entries DEF SecretInv, Shape
    <3>2. QED
      BY <2>1, <3>1, EntryReplaced
  <2>3. QED
    BY <2>1, <2>2, BegunEnds
<1>6. ASSUME NEW r, NEW how, Settles(r, how) PROVE EndInv'
  <2>1. UNCHANGED <<cur, creds, hands, runs, conts>>
    BY <1>6 DEF Settles
  <2>2. QED
    BY <2>1, QuietEnds
<1>7. CASE ResolvePasskey \/ RejectPasskey
  BY <1>6, <1>7 DEF ResolvePasskey, RejectPasskey
<1>8. CASE Continuation
  BY <1>8, BeginEnds
<1>9. ASSUME NEW r \in DOMAIN runs,
             SignerAnswers(r) \/ ChallengeAnswered(r) \/ ChallengeTimesOut(r)
      PROVE  EndInv'
  <2>1. CASE SignerAnswers(r)
    <3>1. UNCHANGED <<cur, creds, hands, runs, conts>>
      BY <2>1 DEF SignerAnswers
    <3>2. QED
      BY <3>1, QuietEnds
  <2>2. QED
    BY <1>6, <1>9, <2>1 DEF ChallengeAnswered, ChallengeTimesOut
<1>10. ASSUME NEW r \in DOMAIN runs,
              \/ CredsSaved(r) \/ CredsNotWritten(r) \/ Signed(r) \/ NotSigned(r) \/ RefFetched(r)
              \/ PrologueAnswered(r) \/ QueryRejected(r)
       PROVE  EndInv'
  BY <1>0, <1>10, WorkEnds
<1>11. ASSUME NEW h \in DOMAIN creds, ContinuationTimesOut(h) PROVE EndInv'
  BY <1>0, <1>11, TimerEnds
<1>12. ASSUME NEW i \in DOMAIN conts, NonceSent(i) \/ RequestSent(i) \/ ContinuationRejected(i)
       PROVE  EndInv'
  BY <1>0, <1>12, ContinuationEnds
<1>13. QED
  BY <1>1, <1>2, <1>3, <1>4, <1>5, <1>7, <1>8, <1>9, <1>10, <1>11, <1>12 DEF Next

(* For any number of sockets and prologues: whoever paired is told how it ended, when it  *)
(* failed and when it was sent and nothing of it is on the way any more, and is told once *)
(* unless a continuation came that the prologue did not wait for, or prologues overlap    *)
(* (onError, armContinuationTimer and handleContinuation of the handshake).               *)
THEOREM EndToldOnce == Spec => []EndIsToldOnce
<1>1. Init => SecretInv /\ EndInv
  <2> SUFFICES ASSUME Init PROVE SecretInv /\ EndInv
    OBVIOUS
  <2>1. creds = <<>> /\ runs = <<>> /\ 1 .. Len(runs) = {} /\ 1 .. Len(creds) = {}
    BY DEF Init
  <2>2. EndInv
    BY <2>1 DEF EndInv, ArmedOwn, Alone
  <2>3. QED
    BY <2>2, Begin
<1>2. (SecretInv /\ EndInv) /\ [Next]_vars => (SecretInv /\ EndInv)'
  BY SecretStep, EndStep
<1>3. SecretInv /\ EndInv => EndIsToldOnce
  <2> SUFFICES ASSUME SecretInv, EndInv PROVE EndIsToldOnce
    OBVIOUS
  <2>1. /\ DOMAIN runs = 1 .. Len(runs) /\ DOMAIN conts = 1 .. Len(conts)
        /\ \A r \in 1 .. Len(runs) : runs[r].step \in Steps /\ runs[r].told \in Nat
    <3>1. /\ DOMAIN runs = 1 .. Len(runs) /\ DOMAIN conts = 1 .. Len(conts)
          /\ \A r \in 1 .. Len(runs) : runs[r] \in Run
      BY Entries DEF SecretInv
    <3>2. QED
      BY <3>1 DEF Run
  <2>2. ASSUME NEW r \in 1 .. Len(runs), ~(runs[r].told > 0), runs[r].step \notin Working \cup {"lost"}
        PROVE  /\ runs[r].step = "sent"
               /\ \/ armed[runs[r].socket] = r \/ Continues(r)
                  \/ cur # runs[r].socket \/ runs[r].overlapped
                  \/ \E i \in DOMAIN conts : conts[i].run = r /\ conts[i].step = "failed"
    <3>1. Ends(r) /\ runs[r].told = 0
      BY <2>1, <2>2 DEF EndInv
    <3>2. runs[r].step = "sent"
      BY <2>1, <2>2, <3>1 DEF Ends, Steps
    <3>3. Due(r) => \/ armed[runs[r].socket] = r
                    \/ \E i \in 1 .. Len(conts) : Waits(i, r)
                    \/ Broken(r)
      BY <3>1, <3>2 DEF Ends
    <3>4. QED
      BY <2>1, <3>1, <3>2, <3>3 DEF Due, Continues, Waits, Broken
  <2>3. EndIsTold
    BY <2>1, <2>2 DEF EndIsTold
  <2>4. ToldTwiceOnlyIfUntimely
    <3>1. ASSUME NEW r \in 1 .. Len(runs), runs[r].told > 1 PROVE runs[r].untimely \/ runs[r].overlapped
      <4>1. Once(r) /\ ~(runs[r].told <= 1)
        BY <2>1, <3>1 DEF EndInv
      <4>2. QED
        BY <4>1 DEF Once
    <3>2. QED
      BY <2>1, <3>1 DEF ToldTwiceOnlyIfUntimely
  <2>5. QED
    BY <2>3, <2>4 DEF EndIsToldOnce
<1>4. QED
  BY <1>1, <1>2, <1>3, PTL DEF Spec
=============================================================================
