--------------------------- MODULE MessagesProofs ----------------------------
(***************************************************************************)
(* What TLAPS proves of messages. First of their statuses, for either      *)
(* adapter: handlers know how far a message got, and no further, for any   *)
(* number of recipients and of reports under way, in any order and any     *)
(* number of times. Then of the messages of a Baileys client, in every     *)
(* world that can be, however many messages it has and whoever wrote them, *)
(* however many are held, asked about and edited: what a handler holds is  *)
(* either a message as it came, whose key is that of the message, or one   *)
(* built from a quote, whose key was built of the answer and of what the   *)
(* account knew of itself then (ObjectsOwn).  What is asked (AsksOfReal)   *)
(* and edited (EditsOwn) follows from that; the writer, the contact and    *)
(* who is blocked are read off the object again in every state.  Chats are *)
(* a machine of their own, at the end.                                     *)
(***************************************************************************)
EXTENDS MessageStatuses, BaileysMessages, BaileysChats, FiniteSetTheorems, SequenceTheorems, TLAPS

\* What happened is what a report says, whenever it comes.
Grounded(report) ==
  \/ /\ platform # "baileys"
     /\ \/ report \in {Ack(-1), Ack(1)}
        \/ \E r \in To, n \in 1 .. 3 : n <= reached[r] /\ report = Ack(1 + n)
  \/ /\ platform = "baileys"
     /\ \/ report \in {Update(TRUE, 0), Update(TRUE, 2), Update(TRUE, 6), Update(FALSE, 4)}
        \/ \E r \in To, n \in 1 .. 3 :
             chat # "status" /\ n <= reached[r] /\ report = Update(TRUE, 2 + n)
        \/ \E r \in To, n \in 1 .. 3, earlier \in SUBSET {1} :
             chat # "direct" /\ n <= reached[r] /\ report = Receipt(r, "pn", earlier \cup {n})
        \/ \E form \in {"pn", "lid"}, n \in 1 .. 2 :
             chat # "direct" /\ ownSaw /\ report = Receipt("me", form, {n})

\* What happened was told, or its report is under way.
AnswerComes ==
  server # "pending" =>
    \/ Status(server, None) \in told
    \/ platform = "baileys" /\ Update(TRUE, IF server = "sent" THEN 2 ELSE 0) \in reports
    \/ platform # "baileys" /\ Ack(IF server = "sent" THEN 1 ELSE -1) \in reports

Participant(r) == IF platform = "baileys" /\ chat = "group" THEN r ELSE None

ProgressComes ==
  \A r \in To : reached[r] > 0 =>
    \/ Status(STATUS_TO_PORTABLE[2 + reached[r]], Participant(r)) \in told
    \/ platform # "baileys" /\ Ack(1 + reached[r]) \in reports
    \/ platform = "baileys" /\ chat = "direct" /\ Update(TRUE, 2 + reached[r]) \in reports
    \/ /\ platform = "baileys" /\ chat # "direct"
       /\ \E earlier \in SUBSET {1} : Receipt(r, "pn", earlier \cup {reached[r]}) \in reports

\* A status that says no more than what happened.
Fair(t) ==
  /\ t.status \in {STATUS_TO_PORTABLE[code] : code \in 0 .. 5}
  /\ t.participant \in Recipients \cup {"me", None}
  /\ t.status \in DOMAIN Stages =>
       \/ t.participant \in Recipients /\ reached[t.participant] >= Stages[t.status]
       \/ t.participant = "me" /\ ~lidKnown
       \/ /\ t.participant = None /\ ~(platform = "baileys" /\ chat = "group")
          /\ (\E r \in To : reached[r] >= Stages[t.status]) \/ (chat = "status" /\ ownSaw)

IInv ==
  /\ platform \in {"baileys", "whatsapp-web.js"}
  /\ chat \in {"direct", "group", "status"} /\ lidKnown \in BOOLEAN
  /\ server \in {"pending", "sent", "failed"} /\ reached \in [Recipients -> 0 .. 3]
  /\ IsFiniteSet(reports) /\ Cardinality(reports) <= MaxReports
  /\ \A report \in reports : Grounded(report)
  /\ \A t \in told : Fair(t)
  /\ AnswerComes /\ ProgressComes
-----------------------------------------------------------------------------
(* The recipients a message goes to are recipients. *)
LEMMA ToIsRecipients == To \subseteq Recipients
BY StatusesAssumption DEF To

(* The furthest stage of a receipt is the one it is of (receiptToStatus). *)
LEMMA FurthestStage ==
  ASSUME NEW n \in 1 .. 3, NEW earlier \in SUBSET {1}
  PROVE  receiptToStatus(earlier \cup {n}) = STATUS_TO_PORTABLE[2 + n]
<1> DEFINE times == earlier \cup {n}
           furthest == CHOOSE m \in times : \A other \in times : m >= other
<1>1. n \in times /\ \A other \in times : n >= other
  OBVIOUS
<1>2. furthest \in times /\ \A other \in times : furthest >= other
  BY <1>1
<1>3. \A m \in times : (\A other \in times : m >= other) => m = n
  <2>1. times \subseteq Int /\ n \in Int
    OBVIOUS
  <2> SUFFICES ASSUME NEW m \in times, m >= n PROVE m = n
    BY <1>1
  <2>2. n >= m
    BY <1>1
  <2> HIDE DEF times
  <2>3. QED
    BY <2>1, <2>2
<1>4. furthest = n
  BY <1>2, <1>3
<1>5. QED
  BY <1>4 DEF receiptToStatus

(* The stages are the portable statuses of the codes 3 to 5, and no others. *)
LEMMA StageOfCode ==
  /\ \A n \in 1 .. 3 : /\ STATUS_TO_PORTABLE[2 + n] \in DOMAIN Stages
                       /\ Stages[STATUS_TO_PORTABLE[2 + n]] = n
  /\ STATUS_TO_PORTABLE[0] = "failed" /\ STATUS_TO_PORTABLE[2] = "sent"
  /\ DOMAIN STATUS_TO_PORTABLE = 0 .. 5 /\ DOMAIN ACK_TO_STATUS = -1 .. 4
  /\ \A ack \in -1 .. 4 : ACK_TO_STATUS[ack] = STATUS_TO_PORTABLE[ack + 1]
  /\ {"failed", "sent", "pending"} \cap DOMAIN Stages = {}
<1>1. \A n \in 1 .. 3 : /\ STATUS_TO_PORTABLE[2 + n] \in DOMAIN Stages
                        /\ Stages[STATUS_TO_PORTABLE[2 + n]] = n
  <2> TAKE n \in 1 .. 3
  <2>1. n = 1 \/ n = 2 \/ n = 3
    OBVIOUS
  <2>2. QED
    BY <2>1 DEF STATUS_TO_PORTABLE, Stages
<1>2. QED
  BY <1>1 DEF STATUS_TO_PORTABLE, ACK_TO_STATUS, Stages
-----------------------------------------------------------------------------
(* What was grounded and fair stays so, as recipients only get further. *)
LEMMA FactsStay ==
  ASSUME IInv, UNCHANGED <<platform, chat, lidKnown>>, ownSaw => ownSaw',
         reached' \in [Recipients -> 0 .. 3], \A r \in Recipients : reached[r] <= reached'[r]
  PROVE  /\ \A report : Grounded(report) => Grounded(report)'
         /\ \A t : Fair(t) => Fair(t)'
<1> USE ToIsRecipients
<1>1. To' = To
  BY DEF To
<1>2. \A r \in To, n \in 1 .. 3 : n <= reached[r] => n <= reached'[r]
  BY DEF IInv
<1>3. ASSUME NEW report, Grounded(report) PROVE Grounded(report)'
  <2>1. CASE platform # "baileys"
    BY <1>1, <1>2, <1>3, <2>1 DEF Grounded, Ack
  <2>2. CASE platform = "baileys"
    <3>1. CASE report \in {Update(TRUE, 0), Update(TRUE, 2), Update(TRUE, 6), Update(FALSE, 4)}
      BY <2>2, <3>1 DEF Grounded, Update
    <3>2. CASE \E r \in To, n \in 1 .. 3 :
                 chat # "status" /\ n <= reached[r] /\ report = Update(TRUE, 2 + n)
      BY <1>1, <1>2, <2>2, <3>2 DEF Grounded, Update
    <3>3. CASE \E r \in To, n \in 1 .. 3, earlier \in SUBSET {1} :
                 chat # "direct" /\ n <= reached[r] /\ report = Receipt(r, "pn", earlier \cup {n})
      BY <1>1, <1>2, <2>2, <3>3 DEF Grounded, Receipt
    <3>4. CASE \E form \in {"pn", "lid"}, n \in 1 .. 2 :
                 chat # "direct" /\ ownSaw /\ report = Receipt("me", form, {n})
      BY <2>2, <3>4 DEF Grounded, Receipt
    <3>5. QED
      BY <1>3, <2>2, <3>1, <3>2, <3>3, <3>4 DEF Grounded
  <2>3. QED
    BY <2>1, <2>2
<1>4. ASSUME NEW t, Fair(t) PROVE Fair(t)'
  <2>1. t.status \in DOMAIN Stages => Stages[t.status] \in 1 .. 3
    BY DEF Stages
  <2>2. t.status \in DOMAIN Stages =>
          \A r \in Recipients : reached[r] >= Stages[t.status] => reached'[r] >= Stages[t.status]
    BY <2>1 DEF IInv
  <2>3. QED
    BY <1>1, <1>4, <2>2 DEF Fair, STATUS_TO_PORTABLE, Stages
<1>5. QED
  BY <1>3, <1>4

(* A step of WhatsApp: new reports, each grounded, and nothing told. *)
LEMMA WorldStep ==
  ASSUME IInv, UNCHANGED <<platform, chat, lidKnown, told>>, ownSaw => ownSaw',
         reached' \in [Recipients -> 0 .. 3], \A r \in Recipients : reached[r] <= reached'[r],
         server' \in {"pending", "sent", "failed"},
         NEW new, IsFiniteSet(new), Reports(new), \A report \in new : Grounded(report)',
         AnswerComes', ProgressComes'
  PROVE  IInv'
<1>1. /\ \A report : Grounded(report) => Grounded(report)'
      /\ \A t : Fair(t) => Fair(t)'
  BY FactsStay
<1>2. IsFiniteSet(reports')
  BY FS_Union DEF IInv, Reports
<1>3. \A report \in reports' : Grounded(report)'
  BY <1>1 DEF IInv, Reports
<1>4. \A t \in told' : Fair(t)'
  BY <1>1 DEF IInv
<1>5. Cardinality(reports') <= MaxReports
  BY DEF Reports
<1>6. QED
  BY <1>2, <1>3, <1>4, <1>5 DEF IInv

(* A report is delivered: what is told of it is fair, and what it was of is told. *)
LEMMA DeliveryStep ==
  ASSUME IInv, NEW report \in reports, Arrives(report),
         NEW new, told' = told \cup new, \A t \in new : Fair(t),
         server # "pending" /\ (\/ platform = "baileys" /\ report = Update(TRUE, IF server = "sent" THEN 2 ELSE 0)
                                \/ platform # "baileys" /\ report = Ack(IF server = "sent" THEN 1 ELSE -1)) =>
           Status(server, None) \in new,
         \A r \in To :
           /\ reached[r] > 0
           /\ \/ platform # "baileys" /\ report = Ack(1 + reached[r])
              \/ platform = "baileys" /\ chat = "direct" /\ report = Update(TRUE, 2 + reached[r])
              \/ /\ platform = "baileys" /\ chat # "direct"
                 /\ \E earlier \in SUBSET {1} : report = Receipt(r, "pn", earlier \cup {reached[r]})
           => Status(STATUS_TO_PORTABLE[2 + reached[r]], Participant(r)) \in new
  PROVE  IInv'
<1>1. UNCHANGED <<platform, chat, lidKnown, server, reached, ownSaw>>
  BY DEF Arrives, Account
<1>2. reports' \subseteq reports /\ \A other \in reports : other # report => other \in reports'
  BY DEF Arrives
<1>3. /\ \A other : Grounded(other) => Grounded(other)'
      /\ \A t : Fair(t) => Fair(t)'
  <2>1. reached \in [Recipients -> 0 .. 3]
    BY DEF IInv
  <2>2. reached' \in [Recipients -> 0 .. 3] /\ \A r \in Recipients : reached[r] <= reached'[r]
    BY <1>1, <2>1
  <2>3. QED
    BY <1>1, <2>2, FactsStay
<1>4. IsFiniteSet(reports') /\ Cardinality(reports') <= MaxReports
  <2>1. IsFiniteSet(reports') /\ Cardinality(reports') <= Cardinality(reports)
    BY <1>2, FS_Subset DEF IInv
  <2>2. Cardinality(reports) \in Nat /\ Cardinality(reports') \in Nat
    BY <2>1, FS_CardinalityType DEF IInv
  <2>3. QED
    BY <2>1, <2>2, StatusesAssumption DEF IInv
<1>5. AnswerComes'
  BY <1>1, <1>2 DEF IInv, AnswerComes, Status, Update, Ack
<1>6. ProgressComes'
  <2>1. To' = To /\ \A r \in To : Participant(r)' = Participant(r)
    BY <1>1 DEF To, Participant
  <2> SUFFICES ASSUME NEW r \in To, reached[r] > 0
               PROVE  \/ Status(STATUS_TO_PORTABLE[2 + reached[r]], Participant(r)) \in told'
                      \/ platform # "baileys" /\ Ack(1 + reached[r]) \in reports'
                      \/ platform = "baileys" /\ chat = "direct" /\ Update(TRUE, 2 + reached[r]) \in reports'
                      \/ /\ platform = "baileys" /\ chat # "direct"
                         /\ \E earlier \in SUBSET {1} : Receipt(r, "pn", earlier \cup {reached[r]}) \in reports'
    BY <1>1, <2>1 DEF ProgressComes, STATUS_TO_PORTABLE, Status, Ack, Update, Receipt
  <2>2. QED
    BY <1>2 DEF IInv, ProgressComes
<1>7. QED
  BY <1>1, <1>2, <1>3, <1>4, <1>5, <1>6 DEF IInv
-----------------------------------------------------------------------------
(* What a message's own statuses come to when they are told. *)
LEMMA FairStatuses ==
  ASSUME IInv
  PROVE  /\ \A status \in {"failed", "pending", "sent"} : Fair(Status(status, None))
         /\ \A r \in To, n \in 1 .. 3 : n <= reached[r] =>
              Fair(Status(STATUS_TO_PORTABLE[2 + n], Participant(r)))
<1> USE StageOfCode, ToIsRecipients
<1>1. {"failed", "pending", "sent"} \subseteq {STATUS_TO_PORTABLE[code] : code \in 0 .. 5}
  <2>1. STATUS_TO_PORTABLE[0] = "failed" /\ STATUS_TO_PORTABLE[1] = "pending"
        /\ STATUS_TO_PORTABLE[2] = "sent"
    BY DEF STATUS_TO_PORTABLE
  <2>2. QED
    BY <2>1
<1>2. \A status \in {"failed", "pending", "sent"} : Fair(Status(status, None))
  BY <1>1 DEF Fair, Status
<1>3. ASSUME NEW r \in To, NEW n \in 1 .. 3, n <= reached[r]
      PROVE  Fair(Status(STATUS_TO_PORTABLE[2 + n], Participant(r)))
  <2> DEFINE t == Status(STATUS_TO_PORTABLE[2 + n], Participant(r))
  <2>1. t.status = STATUS_TO_PORTABLE[2 + n] /\ t.participant = Participant(r)
    BY DEF Status
  <2>2. t.status \in {STATUS_TO_PORTABLE[code] : code \in 0 .. 5}
    BY <2>1
  <2>3. t.status \in DOMAIN Stages /\ Stages[t.status] = n
    BY <2>1
  <2>4. r \in Recipients /\ reached[r] \in 0 .. 3 /\ reached[r] >= n
    BY <1>3 DEF IInv
  <2>5. CASE platform = "baileys" /\ chat = "group"
    BY <2>1, <2>2, <2>3, <2>4, <2>5 DEF Fair, Participant
  <2>6. CASE ~(platform = "baileys" /\ chat = "group")
    BY <2>1, <2>2, <2>3, <2>4, <2>6 DEF Fair, Participant
  <2>7. QED
    BY <2>5, <2>6
<1>4. QED
  BY <1>2, <1>3

(* What happened is told or under way as long as its report is. *)
LEMMA StillComes ==
  ASSUME IInv, reports \subseteq reports', UNCHANGED <<platform, chat, reached, told>>
  PROVE  /\ ProgressComes'
         /\ server' = server => AnswerComes'
<1>1. To' = To /\ \A r \in To : Participant(r)' = Participant(r)
  BY DEF To, Participant
<1>2. \A r \in To : reached[r] > 0 =>
        \/ Status(STATUS_TO_PORTABLE[2 + reached[r]], Participant(r)) \in told
        \/ platform # "baileys" /\ Ack(1 + reached[r]) \in reports'
        \/ platform = "baileys" /\ chat = "direct" /\ Update(TRUE, 2 + reached[r]) \in reports'
        \/ /\ platform = "baileys" /\ chat # "direct"
           /\ \E earlier \in SUBSET {1} : Receipt(r, "pn", earlier \cup {reached[r]}) \in reports'
  BY DEF IInv, ProgressComes
<1>3. ProgressComes'
  <2> SUFFICES ASSUME NEW r \in To', reached'[r] > 0
               PROVE  (\/ Status(STATUS_TO_PORTABLE[2 + reached[r]], Participant(r)) \in told
                       \/ platform # "baileys" /\ Ack(1 + reached[r]) \in reports
                       \/ platform = "baileys" /\ chat = "direct" /\ Update(TRUE, 2 + reached[r]) \in reports
                       \/ /\ platform = "baileys" /\ chat # "direct"
                          /\ \E earlier \in SUBSET {1} :
                               Receipt(r, "pn", earlier \cup {reached[r]}) \in reports)'
    BY DEF ProgressComes
  <2>1. QED
    BY <1>1, <1>2 DEF Participant, Status, Ack, Update, Receipt
<1>4. server' = server => AnswerComes'
  BY DEF IInv, AnswerComes, Status, Update, Ack
<1>5. QED
  BY <1>3, <1>4

(* A set of one report is finite, and of two. *)
LEMMA FewAreFinite == \A a, b : IsFiniteSet({a}) /\ IsFiniteSet({a, b})
<1> TAKE a, b
<1>1. IsFiniteSet({a}) /\ IsFiniteSet({b})
  BY FS_Singleton
<1>2. {a, b} = {a} \cup {b}
  OBVIOUS
<1>3. IsFiniteSet({a} \cup {b})
  BY <1>1, FS_Union
<1>4. QED
  BY <1>1, <1>2, <1>3

(* WhatsApp's own steps. *)
LEMMA WhatsAppStep ==
  ASSUME IInv, ServerAnswers \/ OwnDevice \/ SomethingNew \/ \E r \in To : Reaches(r)
  PROVE  IInv'
<1> USE ToIsRecipients, FewAreFinite
<1>0. \A r \in Recipients : reached[r] \in 0 .. 3
  BY DEF IInv
<1>1. CASE ServerAnswers
  <2> DEFINE code == IF server' = "sent" THEN 2 ELSE 0
             new == IF platform = "baileys" THEN {Update(TRUE, code)} ELSE {Ack(code - 1)}
  <2>1. /\ server = "pending" /\ server' \in {"sent", "failed"} /\ Reports(new)
        /\ UNCHANGED <<platform, chat, lidKnown, reached, ownSaw, told>>
    BY <1>1 DEF ServerAnswers, Account
  <2>2. IsFiniteSet(new)
    OBVIOUS
  <2>3. code - 1 = (IF server' = "sent" THEN 1 ELSE -1) /\ new \subseteq reports'
    <3>1. code - 1 = (IF server' = "sent" THEN 1 ELSE -1)
      OBVIOUS
    <3> HIDE DEF new
    <3>2. new \subseteq reports'
      BY <2>1 DEF Reports
    <3>3. QED
      BY <3>1, <3>2
  <2>4. \A report \in new : Grounded(report)'
    BY <2>1, <2>3 DEF IInv, Grounded, Update, Ack
  <2>5. AnswerComes'
    BY <2>1, <2>3 DEF AnswerComes, Update, Ack
  <2>6. ProgressComes'
    BY <2>1, StillComes DEF Reports
  <2> HIDE DEF new
  <2>7. QED
    BY <1>0, <2>1, <2>2, <2>4, <2>5, <2>6, WorldStep DEF IInv
<1>2. CASE OwnDevice \/ SomethingNew
  <2>1. PICK report : Reports({report}) /\ Grounded(report)'
    <3>1. CASE OwnDevice /\ chat = "direct"
      <4>1. Reports({Update(FALSE, 4)}) /\ platform' = "baileys"
        BY <3>1 DEF OwnDevice, Account
      <4>2. Grounded(Update(FALSE, 4))'
        BY <4>1 DEF Grounded, Update
      <4>3. QED
        BY <4>1, <4>2
    <3>2. CASE OwnDevice /\ chat # "direct"
      <4>1. PICK form \in {"pn", "lid"}, n \in 1 .. 2 : Reports({Receipt("me", form, {n})})
        BY <3>2 DEF OwnDevice
      <4>2. platform' = "baileys" /\ chat' # "direct" /\ ownSaw'
        BY <3>2 DEF OwnDevice, Account
      <4>3. Grounded(Receipt("me", form, {n}))'
        BY <4>2 DEF Grounded, Receipt
      <4>4. QED
        BY <4>1, <4>3
    <3>3. CASE SomethingNew
      <4>1. Reports({Update(TRUE, 6)}) /\ platform' = "baileys"
        BY <3>3 DEF SomethingNew, Account
      <4>2. Grounded(Update(TRUE, 6))'
        BY <4>1 DEF Grounded, Update
      <4>3. QED
        BY <4>1, <4>2
    <3>4. QED
      BY <1>2, <3>1, <3>2, <3>3
  <2>2. UNCHANGED <<platform, chat, lidKnown, server, reached, told>> /\ (ownSaw => ownSaw')
    BY <1>2 DEF OwnDevice, SomethingNew, Account
  <2>3. AnswerComes' /\ ProgressComes'
    BY <2>1, <2>2, StillComes DEF Reports
  <2>4. QED
    BY <1>0, <2>1, <2>2, <2>3, WorldStep DEF IInv
<1>3. ASSUME NEW r \in To, Reaches(r) PROVE IInv'
  <2>1. PICK n \in reached[r] + 1 .. 3, earlier \in SUBSET {1} :
          /\ reached' = [reached EXCEPT ![r] = n]
          /\ Reports(IF platform # "baileys" THEN {Ack(1 + n)}
                     ELSE (IF chat = "status" THEN {} ELSE {Update(TRUE, 2 + n)})
                            \cup (IF chat = "direct" THEN {} ELSE {Receipt(r, "pn", earlier \cup {n})}))
    BY <1>3 DEF Reaches
  <2> DEFINE updates  == IF platform = "baileys" /\ chat # "status" THEN {Update(TRUE, 2 + n)} ELSE {}
             receipts == IF platform = "baileys" /\ chat # "direct"
                         THEN {Receipt(r, "pn", earlier \cup {n})} ELSE {}
             acks     == IF platform # "baileys" THEN {Ack(1 + n)} ELSE {}
             new      == updates \cup receipts \cup acks
  <2>2. Reports(new)
    <3>1. CASE platform # "baileys"
      BY <2>1, <3>1
    <3>2. CASE platform = "baileys"
      BY <2>1, <3>2
    <3>3. QED
      BY <3>1, <3>2
  <2>3. UNCHANGED <<platform, chat, lidKnown, server, ownSaw, told>>
    BY <1>3 DEF Reaches, Account
  <2>4. r \in Recipients /\ n \in 1 .. 3 /\ reached[r] < n
    BY <1>0, <2>1
  <2>5. /\ reached' \in [Recipients -> 0 .. 3] /\ reached'[r] = n
        /\ \A q \in Recipients : q # r => reached'[q] = reached[q]
        /\ \A q \in Recipients : reached[q] <= reached'[q]
    BY <1>0, <2>1, <2>4 DEF IInv
  <2>6. IsFiniteSet(new)
    <3>1. IsFiniteSet(updates) /\ IsFiniteSet(receipts) /\ IsFiniteSet(acks)
      BY FS_EmptySet
    <3> HIDE DEF updates, receipts, acks
    <3>2. QED
      BY <3>1, FS_Union
  <2>7. To' = To /\ r \in To' /\ \A q \in To : Participant(q)' = Participant(q)
    BY <2>3 DEF To, Participant
  <2>8. \A report \in new : Grounded(report)'
    <3>1. n <= reached'[r] /\ n \in 1 .. 3
      BY <2>4, <2>5
    <3>2. ASSUME NEW report \in updates PROVE Grounded(report)'
      <4>1. platform' = "baileys" /\ chat' # "status" /\ report = Update(TRUE, 2 + n)
        BY <2>3, <3>2
      <4>2. QED
        BY <2>7, <3>1, <4>1 DEF Grounded, Update
    <3>3. ASSUME NEW report \in receipts PROVE Grounded(report)'
      <4>1. platform' = "baileys" /\ chat' # "direct" /\ report = Receipt(r, "pn", earlier \cup {n})
        BY <2>3, <3>3
      <4>2. QED
        BY <2>7, <3>1, <4>1 DEF Grounded, Receipt
    <3>4. ASSUME NEW report \in acks PROVE Grounded(report)'
      <4>1. platform' # "baileys" /\ report = Ack(1 + n)
        BY <2>3, <3>4
      <4>2. QED
        BY <2>7, <3>1, <4>1 DEF Grounded, Ack
    <3>5. QED
      BY <3>2, <3>3, <3>4
  <2>9. reports \subseteq reports' /\ new \subseteq reports'
    BY <2>2 DEF Reports
  <2>10. AnswerComes'
    BY <2>3, <2>9 DEF IInv, AnswerComes
  <2>11. ProgressComes'
    <3>1. \/ platform # "baileys" /\ Ack(1 + n) \in reports'
          \/ platform = "baileys" /\ chat = "direct" /\ Update(TRUE, 2 + n) \in reports'
          \/ /\ platform = "baileys" /\ chat # "direct"
             /\ Receipt(r, "pn", earlier \cup {n}) \in reports'
      BY <2>9 DEF IInv
    <3>2. ASSUME NEW q \in To, reached'[q] > 0
          PROVE  \/ Status(STATUS_TO_PORTABLE[2 + reached'[q]], Participant(q)) \in told
                 \/ platform # "baileys" /\ Ack(1 + reached'[q]) \in reports'
                 \/ platform = "baileys" /\ chat = "direct" /\ Update(TRUE, 2 + reached'[q]) \in reports'
                 \/ /\ platform = "baileys" /\ chat # "direct"
                    /\ \E before \in SUBSET {1} : Receipt(q, "pn", before \cup {reached'[q]}) \in reports'
      <4>1. CASE q = r
        BY <2>5, <3>1, <4>1, <2>4
      <4>2. CASE q # r
        BY <2>5, <2>9, <3>2, <4>2 DEF IInv, ProgressComes
      <4>3. QED
        BY <4>1, <4>2
    <3>3. SUFFICES ASSUME NEW q \in To', reached'[q] > 0
          PROVE  (\/ Status(STATUS_TO_PORTABLE[2 + reached[q]], Participant(q)) \in told
                  \/ platform # "baileys" /\ Ack(1 + reached[q]) \in reports
                  \/ platform = "baileys" /\ chat = "direct" /\ Update(TRUE, 2 + reached[q]) \in reports
                  \/ /\ platform = "baileys" /\ chat # "direct"
                     /\ \E before \in SUBSET {1} :
                          Receipt(q, "pn", before \cup {reached[q]}) \in reports)'
      BY DEF ProgressComes
    <3>4. QED
      BY <2>3, <2>7, <3>2, <3>3 DEF Participant, Status, Ack, Update, Receipt
  <2> HIDE DEF new
  <2>12. QED
    BY <2>2, <2>3, <2>5, <2>6, <2>8, <2>10, <2>11, WorldStep DEF IInv
<1>4. QED
  BY <1>1, <1>2, <1>3
-----------------------------------------------------------------------------
(* A report is of one kind. *)
LEMMA ReportKinds ==
  /\ \A fromMe, code : Update(fromMe, code).is = "update"
  /\ \A by, form, times : Receipt(by, form, times).is = "receipt"
  /\ \A ack : Ack(ack).is = "ack"
BY DEF Update, Receipt, Ack

(* The server's answers are not stages of a message as a whole. *)
LEMMA AnswersAreNoAggregate == ~(0 > 2) /\ ~(2 > 2)
OBVIOUS

(* onMessagesUpdate tells no more than happened, and tells what was to come. *)
LEMMA UpdateIsHandled ==
  ASSUME IInv, NEW report \in reports, OnMessagesUpdate(report)
  PROVE  IInv'
<1> USE StageOfCode
<1> DEFINE status  == toMessageStatus(report.code)
           skipped == ~report.fromMe \/ status = None \/ (chat = "group" /\ report.code > 2)
           new     == IF skipped THEN {} ELSE {Status(status, None)}
<1>1. report.is = "update" /\ Arrives(report) /\ told' = told \cup new
  BY DEF OnMessagesUpdate
<1>2. Grounded(report)
  BY DEF IInv
<1>3. platform = "baileys"
  BY <1>1, <1>2, ReportKinds DEF Grounded
<1>4. \A code \in 0 .. 5 : toMessageStatus(code) = STATUS_TO_PORTABLE[code] /\ toMessageStatus(code) # None
  <2> TAKE code \in 0 .. 5
  <2>1. STATUS_TO_PORTABLE[code] # None
    BY DEF STATUS_TO_PORTABLE, None
  <2>2. QED
    BY <2>1 DEF toMessageStatus
<1>5. /\ toMessageStatus(0) = "failed" /\ toMessageStatus(2) = "sent" /\ toMessageStatus(6) = None
      /\ None \notin {"failed", "sent"}
  BY DEF toMessageStatus, None
<1>6. \A t \in new : Fair(t)
  <2>1. CASE report \in {Update(TRUE, 0), Update(TRUE, 2), Update(TRUE, 6), Update(FALSE, 4)}
    <3>1. skipped \/ status \in {"failed", "sent"}
      BY <1>4, <1>5, <2>1 DEF Update
    <3>2. QED
      BY <3>1, FairStatuses
  <2>2. CASE \E r \in To, n \in 1 .. 3 :
               chat # "status" /\ n <= reached[r] /\ report = Update(TRUE, 2 + n)
    <3>1. PICK r \in To, n \in 1 .. 3 : n <= reached[r] /\ report = Update(TRUE, 2 + n)
      BY <2>2
    <3>2. report.code = 2 + n /\ 2 + n \in 0 .. 5 /\ 2 + n > 2
      BY <3>1 DEF Update
    <3>3. status = STATUS_TO_PORTABLE[2 + n]
      BY <1>4, <3>2
    <3>4. CASE chat = "group"
      BY <3>2, <3>4
    <3>5. CASE chat # "group"
      <4>1. Participant(r) = None
        BY <3>5 DEF Participant
      <4>2. Fair(Status(STATUS_TO_PORTABLE[2 + n], None))
        BY <3>1, <4>1, FairStatuses
      <4>3. QED
        BY <3>3, <4>2
    <3>6. QED
      BY <3>4, <3>5
  <2>3. QED
    <3> HIDE DEF new
    <3>1. \A form, times : report # Receipt("me", form, times)
      BY <1>1, ReportKinds
    <3>2. \A r, times : report # Receipt(r, "pn", times)
      BY <1>1, ReportKinds
    <3>3. \A r \in To, n \in 1 .. 3, earlier \in SUBSET {1} :
            report # Receipt(r, "pn", earlier \cup {n})
      <4> TAKE r \in To, n \in 1 .. 3, earlier \in SUBSET {1}
      <4>1. PICK times : times = earlier \cup {n} OBVIOUS
      <4>2. report # Receipt(r, "pn", times) BY <3>2
      <4> QED BY <4>1, <4>2
    <3>4. ~ \E form \in {"pn", "lid"}, n \in 1 .. 2 :
            chat # "direct" /\ ownSaw /\ report = Receipt("me", form, {n})
      BY <3>1
    <3>5. \/ report \in {Update(TRUE, 0), Update(TRUE, 2), Update(TRUE, 6), Update(FALSE, 4)}
          \/ \E r \in To, n \in 1 .. 3 :
               chat # "status" /\ n <= reached[r] /\ report = Update(TRUE, 2 + n)
      <4>1. ASSUME \E r \in To, n \in 1 .. 3, earlier \in SUBSET {1} :
                     /\ chat # "direct" /\ n <= reached[r]
                     /\ report = Receipt(r, "pn", earlier \cup {n})
            PROVE  FALSE
        <5>1. PICK r \in To, n \in 1 .. 3, earlier \in SUBSET {1} :
                report = Receipt(r, "pn", earlier \cup {n})
          BY ONLY <4>1
        <5> QED BY <3>3, <5>1
      <4> QED BY <1>2, <1>3, <3>4, <4>1, Zenon DEF Grounded
    <3>6. QED
      BY <2>1, <2>2, <3>5
<1>7. server # "pending" /\ report = Update(TRUE, IF server = "sent" THEN 2 ELSE 0) =>
        Status(server, None) \in new
  <2> SUFFICES ASSUME server # "pending", report = Update(TRUE, IF server = "sent" THEN 2 ELSE 0)
               PROVE  Status(server, None) \in new
    OBVIOUS
  <2>1. report.fromMe = TRUE /\ report.code = (IF server = "sent" THEN 2 ELSE 0)
    BY DEF Update
  <2>3. CASE server = "sent"
    <3>1. report.code = 2
      BY <2>1, <2>3
    <3>2. status = "sent" /\ status # None
      BY <1>5, <3>1
    <3>3. ~(report.code > 2)
      BY <3>1, AnswersAreNoAggregate, Zenon
    <3>4. ~skipped
      BY <2>1, <3>2, <3>3, Zenon
    <3>5. QED
      BY <2>3, <3>2, <3>4
  <2>4. CASE server = "failed"
    <3>1. report.code = 0
      BY <2>1, <2>4
    <3>2. status = "failed" /\ status # None
      BY <1>5, <3>1
    <3>3. ~(report.code > 2)
      BY <3>1, AnswersAreNoAggregate, Zenon
    <3>4. ~skipped
      BY <2>1, <3>2, <3>3, Zenon
    <3>5. QED
      BY <2>4, <3>2, <3>4
  <2>5. QED
    BY <2>3, <2>4 DEF IInv
<1>8. ASSUME NEW r \in To, reached[r] > 0, chat = "direct", report = Update(TRUE, 2 + reached[r])
      PROVE  Status(STATUS_TO_PORTABLE[2 + reached[r]], Participant(r)) \in new
  <2>1. reached[r] \in 1 .. 3
    BY <1>8, ToIsRecipients DEF IInv
  <2>2. report.fromMe /\ report.code = 2 + reached[r] /\ report.code \in 0 .. 5
    BY <1>8, <2>1 DEF Update
  <2>3. status = STATUS_TO_PORTABLE[2 + reached[r]] /\ ~skipped
    BY <1>4, <1>8, <2>2
  <2>4. Participant(r) = None
    BY <1>8 DEF Participant
  <2>5. QED
    BY <2>3, <2>4
<1>9. \A r, times : report # Receipt(r, "pn", times)
  BY <1>1, ReportKinds
<1> HIDE DEF new
<1>10. \A r \in To :
         /\ reached[r] > 0
         /\ \/ platform # "baileys" /\ report = Ack(1 + reached[r])
            \/ platform = "baileys" /\ chat = "direct" /\ report = Update(TRUE, 2 + reached[r])
            \/ /\ platform = "baileys" /\ chat # "direct"
               /\ \E earlier \in SUBSET {1} : report = Receipt(r, "pn", earlier \cup {reached[r]})
         => Status(STATUS_TO_PORTABLE[2 + reached[r]], Participant(r)) \in new
  <2> TAKE r \in To
  <2>1. \A earlier : report # Receipt(r, "pn", earlier \cup {reached[r]})
    BY <1>9
  <2>2. QED
    BY <1>3, <1>8, <2>1
<1>11. server # "pending" /\ (\/ platform = "baileys" /\ report = Update(TRUE, IF server = "sent" THEN 2 ELSE 0)
                              \/ platform # "baileys" /\ report = Ack(IF server = "sent" THEN 1 ELSE -1)) =>
         Status(server, None) \in new
  BY <1>3, <1>7
<1>12. QED
  BY <1>1, <1>6, <1>10, <1>11, DeliveryStep

(* onReceiptUpdate tells of who, in a group, and of the furthest stage. *)
LEMMA ReceiptIsHandled ==
  ASSUME IInv, NEW report \in reports, OnReceiptUpdate(report)
  PROVE  IInv'
<1> DEFINE new == IF chat = "group" /\ isMe(report) THEN {}
                  ELSE {Status(receiptToStatus(report.times), IF chat = "group" THEN report.by ELSE None)}
<1>1. report.is = "receipt" /\ Arrives(report) /\ told' = told \cup new
  BY DEF OnReceiptUpdate
<1>2. platform = "baileys" /\ chat # "direct" /\ Grounded(report)
  <2>1. Grounded(report)
    BY DEF IInv
  <2>2. QED
    BY <1>1, <2>1, ReportKinds DEF Grounded
<1>3. \A r \in Recipients : r # "me"
  BY StatusesAssumption
<1>4. ASSUME NEW r \in To, NEW n \in 1 .. 3, NEW earlier \in SUBSET {1},
             report = Receipt(r, "pn", earlier \cup {n})
      PROVE  new = {Status(STATUS_TO_PORTABLE[2 + n], Participant(r))}
  <2>1. report.by = r /\ report.times = earlier \cup {n} /\ ~isMe(report)
    BY <1>3, <1>4, ToIsRecipients DEF Receipt, isMe
  <2>2. receiptToStatus(report.times) = STATUS_TO_PORTABLE[2 + n]
    BY <2>1, FurthestStage
  <2>3. QED
    BY <1>2, <2>1, <2>2 DEF Participant
<1>5. \A t \in new : Fair(t)
  <2>1. CASE \E r \in To, n \in 1 .. 3, earlier \in SUBSET {1} :
               chat # "direct" /\ n <= reached[r] /\ report = Receipt(r, "pn", earlier \cup {n})
    <3>1. PICK r \in To, n \in 1 .. 3, earlier \in SUBSET {1} :
            n <= reached[r] /\ report = Receipt(r, "pn", earlier \cup {n})
      BY <2>1
    <3>2. new = {Status(STATUS_TO_PORTABLE[2 + n], Participant(r))}
      BY <1>4, <3>1
    <3>3. Fair(Status(STATUS_TO_PORTABLE[2 + n], Participant(r)))
      BY <3>1, FairStatuses
    <3>4. QED
      BY <3>2, <3>3
  <2>2. CASE \E form \in {"pn", "lid"}, n \in 1 .. 2 :
               chat # "direct" /\ ownSaw /\ report = Receipt("me", form, {n})
    <3>1. PICK form \in {"pn", "lid"}, n \in 1 .. 2 : ownSaw /\ report = Receipt("me", form, {n})
      BY <2>2
    <3>2. receiptToStatus(report.times) = STATUS_TO_PORTABLE[2 + n]
      <4>1. report.times = {n} /\ {n} = {} \cup {n}
        BY <3>1 DEF Receipt
      <4>2. n \in 1 .. 3 /\ {} \in SUBSET {1}
        OBVIOUS
      <4>3. receiptToStatus({} \cup {n}) = STATUS_TO_PORTABLE[2 + n]
        BY <4>2, FurthestStage
      <4>4. QED
        BY <4>1, <4>3
    <3>3. \A t \in new : t = Status(STATUS_TO_PORTABLE[2 + n], IF chat = "group" THEN "me" ELSE None)
      BY <3>1, <3>2 DEF Receipt
    <3>4. chat = "group" /\ new # {} => ~lidKnown
      BY <3>1 DEF isMe, Receipt, IInv
    <3>5. STATUS_TO_PORTABLE[2 + n] \in {STATUS_TO_PORTABLE[code] : code \in 0 .. 5}
      OBVIOUS
    <3> HIDE DEF new
    <3>6. QED
      BY <1>2, <3>1, <3>3, <3>4, <3>5 DEF Fair, Status, IInv
  <2>3. QED
    BY <1>1, <1>2, <2>1, <2>2, ReportKinds DEF Grounded
<1>6. ASSUME NEW r \in To, reached[r] > 0,
             \E earlier \in SUBSET {1} : report = Receipt(r, "pn", earlier \cup {reached[r]})
      PROVE  Status(STATUS_TO_PORTABLE[2 + reached[r]], Participant(r)) \in new
  <2>1. reached[r] \in 1 .. 3
    BY <1>6, ToIsRecipients DEF IInv
  <2>2. PICK earlier \in SUBSET {1} : report = Receipt(r, "pn", earlier \cup {reached[r]})
    BY <1>6
  <2> HIDE DEF new
  <2>3. new = {Status(STATUS_TO_PORTABLE[2 + reached[r]], Participant(r))}
    BY <1>4, <2>1, <2>2
  <2>4. QED
    BY <2>3
<1>7. \A fromMe, code : report # Update(fromMe, code)
  BY <1>1, ReportKinds
<1> HIDE DEF new
<1>8. QED
  BY <1>1, <1>2, <1>5, <1>6, <1>7, DeliveryStep

(* MESSAGE_ACK of whatsapp-web.js tells of the message as a whole. *)
LEMMA AckIsHandled ==
  ASSUME IInv, NEW report \in reports, MessageAck(report)
  PROVE  IInv'
<1> USE StageOfCode
<1> DEFINE new == IF report.ack \in DOMAIN ACK_TO_STATUS THEN {Status(ACK_TO_STATUS[report.ack], None)} ELSE {}
<1>1. report.is = "ack" /\ Arrives(report) /\ told' = told \cup new
  BY DEF MessageAck
<1>2. platform # "baileys" /\ Grounded(report)
  BY <1>1 DEF IInv, Grounded, Receipt, Update
<1>3. ASSUME NEW ack \in -1 .. 4, report = Ack(ack)
      PROVE  new = {Status(STATUS_TO_PORTABLE[ack + 1], None)}
  BY <1>3 DEF Ack
<1>4. \A r : Participant(r) = None
  BY <1>2 DEF Participant
<1>5. ASSUME NEW n \in 1 .. 3, report = Ack(1 + n)
      PROVE  new = {Status(STATUS_TO_PORTABLE[2 + n], None)}
  <2>1. 1 + n \in -1 .. 4 /\ (1 + n) + 1 = 2 + n
    OBVIOUS
  <2> HIDE DEF new
  <2>2. QED
    BY <1>3, <1>5, <2>1
<1>6. \A t \in new : Fair(t)
  <2>1. CASE report \in {Ack(-1), Ack(1)}
    <3>1. new = {Status("failed", None)} \/ new = {Status("sent", None)}
      <4> HIDE DEF new
      <4>1. CASE report = Ack(-1)
        <5>1. -1 \in -1 .. 4 /\ -1 + 1 = 0
          OBVIOUS
        <5>2. new = {Status(STATUS_TO_PORTABLE[-1 + 1], None)}
          BY <1>3, <4>1, <5>1
        <5>3. QED
          BY <5>1, <5>2
      <4>2. CASE report = Ack(1)
        <5>1. 1 \in -1 .. 4 /\ 1 + 1 = 2
          OBVIOUS
        <5>2. new = {Status(STATUS_TO_PORTABLE[1 + 1], None)}
          BY <1>3, <4>2, <5>1
        <5>3. QED
          BY <5>1, <5>2
      <4>3. QED
        BY <2>1, <4>1, <4>2
    <3>2. QED
      BY <3>1, FairStatuses
  <2>2. CASE \E r \in To, n \in 1 .. 3 : n <= reached[r] /\ report = Ack(1 + n)
    <3>1. PICK r \in To, n \in 1 .. 3 : n <= reached[r] /\ report = Ack(1 + n)
      BY <2>2
    <3>2. new = {Status(STATUS_TO_PORTABLE[2 + n], Participant(r))}
      BY <1>4, <1>5, <3>1
    <3>3. QED
      BY <3>1, <3>2, FairStatuses
  <2>3. QED
    BY <1>2, <2>1, <2>2 DEF Grounded
<1>7. server # "pending" /\ report = Ack(IF server = "sent" THEN 1 ELSE -1) =>
        Status(server, None) \in new
  <2> SUFFICES ASSUME server # "pending", report = Ack(IF server = "sent" THEN 1 ELSE -1)
               PROVE  Status(server, None) \in new
    OBVIOUS
  <2> HIDE DEF new
  <2>1. CASE server = "sent"
    <3>1. 1 \in -1 .. 4 /\ 1 + 1 = 2
      OBVIOUS
    <3>2. new = {Status(STATUS_TO_PORTABLE[1 + 1], None)}
      BY <1>3, <2>1, <3>1
    <3>3. QED
      BY <2>1, <3>1, <3>2
  <2>2. CASE server = "failed"
    <3>1. -1 \in -1 .. 4 /\ -1 + 1 = 0
      OBVIOUS
    <3>2. new = {Status(STATUS_TO_PORTABLE[-1 + 1], None)}
      BY <1>3, <2>2, <3>1
    <3>3. QED
      BY <2>2, <3>1, <3>2
  <2>3. QED
    BY <2>1, <2>2 DEF IInv
<1>8. ASSUME NEW r \in To, reached[r] > 0, report = Ack(1 + reached[r])
      PROVE  Status(STATUS_TO_PORTABLE[2 + reached[r]], Participant(r)) \in new
  <2>1. reached[r] \in 1 .. 3
    BY <1>8, ToIsRecipients DEF IInv
  <2> HIDE DEF new
  <2>2. QED
    BY <1>4, <1>5, <1>8, <2>1
<1> HIDE DEF new
<1>9. QED
  BY <1>1, <1>2, <1>6, <1>7, <1>8, DeliveryStep
-----------------------------------------------------------------------------
(* The inductive invariant: every report under way is of something that happened, *)
(* and of everything that happened a status was told or a report is under way.     *)
THEOREM StatusInvariance == Spec => []IInv
<1>1. Init => IInv
  <2> SUFFICES ASSUME Init PROVE IInv
    OBVIOUS
  <2>1. reports = {} /\ IsFiniteSet(reports) /\ Cardinality(reports) = 0
    BY FS_EmptySet DEF Init
  <2>2. AnswerComes
    BY DEF Init, AnswerComes
  <2>3. ProgressComes
    BY ToIsRecipients DEF Init, ProgressComes
  <2>4. QED
    BY <2>1, <2>2, <2>3, StatusesAssumption DEF Init, IInv
<1>2. IInv /\ [Next]_vars => IInv'
  <2> SUFFICES ASSUME IInv, [Next]_vars PROVE IInv'
    OBVIOUS
  <2>1. CASE ServerAnswers \/ OwnDevice \/ SomethingNew \/ \E r \in To : Reaches(r)
    BY <2>1, WhatsAppStep
  <2>2. ASSUME NEW report \in reports, Handles(report) PROVE IInv'
    BY <2>2, UpdateIsHandled, ReceiptIsHandled, AckIsHandled DEF Handles
  <2>3. CASE UNCHANGED vars
    <3>1. UNCHANGED <<platform, chat, lidKnown, server, reached, ownSaw, reports, told>>
      BY <2>3 DEF vars
    <3>2. /\ \A report : Grounded(report) => Grounded(report)'
          /\ \A t : Fair(t) => Fair(t)'
      <4>1. reached' \in [Recipients -> 0 .. 3] /\ \A r \in Recipients : reached[r] <= reached'[r]
        BY <3>1 DEF IInv
      <4>2. QED
        BY <3>1, <4>1, FactsStay
    <3>3. AnswerComes' /\ ProgressComes'
      BY <3>1, StillComes
    <3>4. QED
      BY <3>1, <3>2, <3>3 DEF IInv
  <2>4. QED
    BY <2>1, <2>2, <2>3 DEF Next
<1>3. QED
  BY <1>1, <1>2, PTL DEF Spec

(* StatusesAreTrue: handlers hear of nothing that did not happen to a message the *)
(* account sent, and once every report has come they know all that did, with any  *)
(* number of recipients (onMessagesUpdate, onReceiptUpdate, MESSAGE_ACK).         *)
THEOREM StatusesHold == Spec => []StatusesAreTrue
<1>1. IInv => StatusesAreTrue
  <2> SUFFICES ASSUME IInv PROVE StatusesAreTrue
    OBVIOUS
  <2>1. TypeOK
    BY DEF IInv, TypeOK, Fair
  <2>2. NeverOverstated
    BY DEF IInv, NeverOverstated, Fair
  <2>3. AllIsTold
    BY DEF IInv, AllIsTold, AnswerComes, ProgressComes, Participant
  <2>4. QED
    BY <2>1, <2>2, <2>3 DEF StatusesAreTrue
<1>2. QED
  BY <1>1, StatusInvariance, PTL
-----------------------------------------------------------------------------
\* Whoever may be named, the forms of a name, and the keys built of them.
People == {World[id].writer : id \in Ids} \cup {Nil, "me", "else", "peer", "group"}
Names  == [of : People, form : {Nil, "pn", "lid", "group"}]
Keys   == [id : Ids, remote : Names, fromMe : BOOLEAN,
           participant : Names, participantAlt : Names, remoteAlt : Names]
Objects == [id : Ids, key : Keys, quoted : BOOLEAN, text : Nat, sure : BOOLEAN]
Edits   == [id : Ids, user : {"me", "else"}, state : {"sent", "shown", "ignored"}, late : BOOLEAN]

Shape ==
  /\ user \in {Nil, "me", "else"} /\ knowsLid \in BOOLEAN /\ live \subseteq Ids
  /\ handled \in [Ids -> Nat] /\ resent \in [Ids -> Nat]
  /\ held \subseteq Objects /\ edits \in Seq(Edits)

\* The chat and the writer are those of a message.
OfReal(key) ==
  key.remote.of = KeyOf(key.id).remote.of /\ key.fromMe = KeyOf(key.id).fromMe

\* As it came, or built from a quote: then its participant is who wrote it, and if the
\* account knew itself when it was built the key tells whether it is the account's.
Came(o)  == ~o.quoted /\ o.key = KeyOf(o.id) /\ o.sure
Built(o) ==
  /\ o.quoted /\ o.key.id = o.id
  /\ o.key.participant.of = World[o.id].writer /\ o.key.participantAlt = NoId
  /\ o.sure => OfReal(o.key)

ObjectsOwn == \A o \in held : Came(o) \/ Built(o)
TextsAreEdits == \A o \in held : o.text <= Len(edits)

\* Only what the account wrote and has a text is edited.
EditOwn(e) ==
  /\ World[e.id].writer = "me" /\ HasCaption(World[e.id].kind)
  /\ (e.state = "ignored" /\ e.user = "me") => e.late
EditsOwn == \A n \in DOMAIN edits : EditOwn(edits[n])

DeclinedOthers == \A from \in declined : from.of # "me" \/ (from.form = "lid" /\ ~knowsLid)

\* The inductive invariant.
MessagesInv ==
  /\ Shape /\ HandledOnce /\ ObjectsOwn /\ TextsAreEdits
  /\ AsksOfReal /\ EditsOwn /\ DeclinedOthers
-----------------------------------------------------------------------------
(***************************************************************************)
(* Keys                                                                    *)
(***************************************************************************)
\* A message's key is one, names its chat, and its writer where it is not told otherwise.
LEMMA KeyIsOne ==
  ASSUME NEW id \in Ids
  PROVE  /\ KeyOf(id) \in Keys /\ KeyOf(id).id = id
         /\ KeyOf(id).fromMe = (World[id].writer = "me")
         /\ KeyOf(id).remote = ChatOf(World[id])
  <1>1. World[id].writer \in People /\ World[id].form \in {"pn", "lid"}
        /\ World[id].chat \in {"direct", "group"}
    BY WorldAssumption DEF People
  <1>2. NoId \in Names /\ ChatOf(World[id]) \in Names
    BY <1>1 DEF NoId, Id, Names, ChatOf, People
  <1>3. Id(World[id].writer, World[id].form) \in Names
    BY <1>1 DEF Id, Names
  <1>4. Id(World[id].writer, Other(World[id].form)) \in Names
        /\ Id("peer", Other(World[id].form)) \in Names
    BY <1>1 DEF Id, Names, Other, People
  <1> QED BY <1>2, <1>3, <1>4 DEF KeyOf, Keys

\* What comes is held as it came.
LEMMA ObjectCame ==
  ASSUME NEW id \in Ids
  PROVE  Object(id) \in Objects /\ Came(Object(id)) /\ Object(id).text = 0
  BY KeyIsOne DEF Object, Objects, Came

\* The key built from a quote is of the message quoted, if the account knew itself.
LEMMA QuoteBuilt ==
  ASSUME Shape, NEW p, p.id \in Ids, Came(p), NEW quoted \in Ids, NEW form \in {"pn", "lid"},
         NEW participant, participant = Id(World[quoted].writer, form),
         NEW sure, sure = (user = "me" /\ (knowsLid \/ participant # Id("me", "lid"))),
         NEW o, o = [id |-> quoted, key |-> QuotedKey(p, quoted, participant), quoted |-> TRUE,
                     text |-> 0, sure |-> sure]
  PROVE  o \in Objects /\ Built(o)
  <1>1. participant \in Names /\ NoId \in Names
    BY DEF Names, Id, NoId, People
  <1>2. /\ ChatOf(World[quoted]) \in Names /\ p.key.remote \in Names
        /\ World[p.id].chat = World[quoted].chat => p.key.remote.of = ChatOf(World[quoted]).of
    <2>1. p.key.remote = ChatOf(World[p.id]) BY KeyIsOne DEF Came
    <2>2. \A id \in Ids : /\ World[id].chat \in {"direct", "group"} /\ World[id].form \in {"pn", "lid"}
                          /\ ChatOf(World[id]) \in Names
      BY WorldAssumption DEF Names, ChatOf, Id, People
    <2> QED BY <2>1, <2>2 DEF ChatOf, Id
  <1>3. IsUser(participant) \in BOOLEAN BY DEF IsUser
  <1>4. QuotedKey(p, quoted, participant) \in Keys
    BY <1>1, <1>2, <1>3 DEF QuotedKey, Keys
  <1>5. sure => (IsUser(participant) <=> World[quoted].writer = "me")
    <2> SUFFICES ASSUME sure PROVE IsUser(participant) <=> World[quoted].writer = "me"
      OBVIOUS
    <2>1. user = "me" /\ (knowsLid \/ participant # Id("me", "lid")) OBVIOUS
    <2>2. World[quoted].writer # Nil BY WorldAssumption
    <2> QED BY <2>1, <2>2 DEF IsUser, myLid, Id, NoId, Nil
  <1>6. OfReal(QuotedKey(p, quoted, participant)) <=> IsUser(participant) = (World[quoted].writer = "me")
    BY <1>2, KeyIsOne DEF OfReal, QuotedKey
  <1>7. o \in Objects BY <1>4 DEF Objects
  <1>8. Built(o)
    BY <1>3, <1>5, <1>6, KeyIsOne DEF Built, QuotedKey, Id
  <1> QED BY <1>7, <1>8

\* What handlers hold, after one more.
LEMMA HoldsOwn ==
  ASSUME Shape, ObjectsOwn, TextsAreEdits, NEW o, Holds(o), o \in Objects, Came(o) \/ Built(o),
         Len(edits) <= Len(edits'), o.text <= Len(edits'), Len(edits) \in Nat, Len(edits') \in Nat
  PROVE  held' \subseteq Objects /\ ObjectsOwn' /\ TextsAreEdits'
  <1>1. held' = held \cup {o} BY DEF Holds
  <1>2. \A p \in held : p.text \in Nat BY DEF Shape, Objects
  <1>3. ObjectsOwn' BY <1>1 DEF ObjectsOwn, Came, Built
  <1>4. TextsAreEdits' BY <1>1, <1>2 DEF TextsAreEdits
  <1> QED BY <1>1, <1>3, <1>4 DEF Shape
-----------------------------------------------------------------------------
(***************************************************************************)
(* The steps                                                               *)
(***************************************************************************)
\* What a sequence of edits is.
LEMMA EditsStay ==
  ASSUME edits \in Seq(Edits)
  PROVE  Len(edits) \in Nat /\ DOMAIN edits = 1 .. Len(edits)
         /\ \A n \in DOMAIN edits : edits[n] \in Edits
  OBVIOUS

\* Where handlers are given nothing, and nothing more is held.
LEMMA Unheld ==
  ASSUME MessagesInv, UNCHANGED <<live, handled, resent, held>>
  PROVE  /\ HandledOnce' /\ ObjectsOwn'
         /\ (Len(edits) <= Len(edits') /\ Len(edits') \in Nat) => TextsAreEdits'
  <1>1. HandledOnce' BY DEF MessagesInv, HandledOnce
  <1>2. ObjectsOwn' BY DEF MessagesInv, ObjectsOwn, Came, Built
  <1>3. ASSUME Len(edits) <= Len(edits'), Len(edits') \in Nat PROVE TextsAreEdits'
    <2>1. Len(edits) \in Nat BY EditsStay DEF MessagesInv, Shape
    <2>2. \A p \in held : p.text \in Nat BY DEF MessagesInv, Shape, Objects
    <2> QED BY <1>3, <2>1, <2>2 DEF MessagesInv, TextsAreEdits
  <1> QED BY <1>1, <1>2, <1>3

\* What is asked stays, and is of what it was; so do the edits, and who was declined.
LEMMA AskedStays ==
  ASSUME AsksOfReal, asked' = asked PROVE AsksOfReal'
  BY DEF AsksOfReal

LEMMA EditedStay ==
  ASSUME EditsOwn, edits' = edits PROVE EditsOwn'
  BY DEF EditsOwn, EditOwn

LEMMA DeclinedStay ==
  ASSUME DeclinedOthers, declined' = declined, knowsLid' = knowsLid PROVE DeclinedOthers'
  BY DEF DeclinedOthers

\* A step that lets messages, objects, requests and edits be.
LEMMA StillStands ==
  ASSUME MessagesInv, knowsLid' = knowsLid, user' \in {Nil, "me", "else"},
         UNCHANGED <<live, handled, resent, held, declined, asked, edits>>
  PROVE  MessagesInv'
  <1>1. Shape' BY DEF MessagesInv, Shape
  <1>2. Len(edits) <= Len(edits') /\ Len(edits') \in Nat BY EditsStay DEF MessagesInv, Shape
  <1>3. HandledOnce' /\ ObjectsOwn' /\ TextsAreEdits' BY <1>2, Unheld
  <1>4. AsksOfReal' /\ EditsOwn' /\ DeclinedOthers'
    BY AskedStays, EditedStay, DeclinedStay DEF MessagesInv
  <1> QED BY <1>1, <1>3, <1>4 DEF MessagesInv

\* An object more, and all else but what handlers were given as it was.
LEMMA OneMoreHeld ==
  ASSUME MessagesInv, NEW o, Holds(o), o \in Objects, Came(o) \/ Built(o), o.text <= Len(edits),
         UNCHANGED <<knowsLid, declined, asked, edits>>,
         user' = user, live' \subseteq Ids, handled' \in [Ids -> Nat], resent' \in [Ids -> Nat],
         HandledOnce'
  PROVE  MessagesInv'
  <1>1. Len(edits) \in Nat /\ Len(edits') = Len(edits) BY EditsStay DEF MessagesInv, Shape
  <1>2. Shape /\ ObjectsOwn /\ TextsAreEdits BY DEF MessagesInv
  <1>3. Len(edits) <= Len(edits') /\ o.text <= Len(edits') /\ Len(edits') \in Nat BY <1>1
  <1>4. held' \subseteq Objects /\ ObjectsOwn' /\ TextsAreEdits' BY <1>1, <1>2, <1>3, HoldsOwn
  <1>5. Shape' BY <1>4 DEF MessagesInv, Shape
  <1>6. AsksOfReal' /\ EditsOwn' /\ DeclinedOthers'
    BY AskedStays, EditedStay, DeclinedStay DEF MessagesInv
  <1> QED BY <1>4, <1>5, <1>6 DEF MessagesInv

\* Sending one: it is held, and no handler is given it.
LEMMA SendStands ==
  ASSUME MessagesInv, NEW id \in Ids, sendAndWrap(id)
  PROVE  MessagesInv'
  <1>1. Object(id) \in Objects /\ Came(Object(id)) /\ Object(id).text = 0 BY ObjectCame
  <1>2. Holds(Object(id)) /\ UNCHANGED <<user, knowsLid, handled, resent, lists, asked, edits>>
        /\ live' = live \cup {id} /\ World[id].here
    BY DEF sendAndWrap
  <1>3. HandledOnce' BY <1>2 DEF MessagesInv, HandledOnce
  <1>4. Len(edits) \in Nat BY EditsStay DEF MessagesInv, Shape
  <1>5. PICK o : o = Object(id) OBVIOUS
  <1>6. Holds(o) /\ o \in Objects /\ (Came(o) \/ Built(o)) /\ o.text <= Len(edits)
    BY <1>1, <1>2, <1>4, <1>5
  <1>7. live' \subseteq Ids /\ handled' \in [Ids -> Nat] /\ resent' \in [Ids -> Nat]
        /\ user' = user /\ UNCHANGED <<knowsLid, declined, asked, edits>>
    BY <1>2 DEF MessagesInv, Shape, lists
  <1> QED BY <1>3, <1>6, <1>7, OneMoreHeld

\* Delivery: of a message not seen before or resent, and never of what was sent from here.
LEMMA DeliveryStands ==
  ASSUME MessagesInv, NEW id \in Ids, Delivers(id)
  PROVE  MessagesInv'
  <1>1. /\ ~World[id].here /\ live' = live \cup {id}
        /\ UNCHANGED <<user, knowsLid, lists, asked, now, edits>>
        /\ (id \notin live /\ resent' = resent) \/ (id \in live /\ resent' = [resent EXCEPT ![id] = @ + 1])
    BY DEF Delivers
  <1>2. live' \subseteq Ids /\ resent' \in [Ids -> Nat]
    <2>1. live' \subseteq Ids BY <1>1 DEF MessagesInv, Shape
    <2>2. resent \in [Ids -> Nat] /\ resent[id] \in Nat BY DEF MessagesInv, Shape
    <2>3. resent' = resent \/ resent' = [resent EXCEPT ![id] = @ + 1] BY <1>1
    <2>4. resent' \in [Ids -> Nat] BY <2>2, <2>3
    <2> QED BY <2>1, <2>4
  <1>3. CASE IsMessage(World[id].kind)
    <2>1. handled' = [handled EXCEPT ![id] = @ + 1] /\ Holds(Object(id))
      BY <1>3 DEF Delivers, OnMessagesUpsert
    <2>2. handled' \in [Ids -> Nat] BY <2>1 DEF MessagesInv, Shape
    <2>3. HandledOnce' BY <1>1, <2>1 DEF MessagesInv, Shape, HandledOnce
    <2>4. Object(id) \in Objects /\ Came(Object(id)) /\ Object(id).text = 0 BY ObjectCame
    <2>5. Len(edits) \in Nat BY EditsStay DEF MessagesInv, Shape
    <2>6. PICK o : o = Object(id) OBVIOUS
    <2>7. Holds(o) /\ o \in Objects /\ (Came(o) \/ Built(o)) /\ o.text <= Len(edits)
      BY <2>1, <2>4, <2>5, <2>6
    <2>8. user' = user /\ UNCHANGED <<knowsLid, declined, asked, edits>> BY <1>1 DEF lists
    <2> QED BY <1>2, <2>2, <2>3, <2>7, <2>8, OneMoreHeld
  <1>4. CASE ~IsMessage(World[id].kind)
    <2>1. UNCHANGED <<handled, held>> BY <1>4 DEF Delivers, OnMessagesUpsert
    <2>2. HandledOnce' BY <1>1, <2>1 DEF MessagesInv, Shape, HandledOnce
    <2>3. Len(edits') = Len(edits) BY <1>1
    <2>4. ObjectsOwn' /\ TextsAreEdits'
      BY <2>1, <2>3 DEF MessagesInv, ObjectsOwn, Came, Built, TextsAreEdits
    <2>5. Shape' BY <1>1, <1>2, <2>1 DEF MessagesInv, Shape
    <2>6. UNCHANGED <<knowsLid, declined, asked, edits>> BY <1>1 DEF lists
    <2>7. AsksOfReal' /\ EditsOwn' /\ DeclinedOthers'
      BY <2>6, AskedStays, EditedStay, DeclinedStay DEF MessagesInv
    <2> QED BY <2>2, <2>4, <2>5, <2>7 DEF MessagesInv
  <1> QED BY <1>3, <1>4

\* What history brings is neither handled nor held.
LEMMA SyncStands ==
  ASSUME MessagesInv, NEW id \in Ids, Syncs(id)
  PROVE  MessagesInv'
  <1>1. UNCHANGED <<user, knowsLid, live, handled, resent, held, declined, asked, edits>>
    BY DEF Syncs, OnMessagesUpsert, lists
  <1>2. user' \in {Nil, "me", "else"} BY <1>1 DEF MessagesInv, Shape
  <1> QED BY <1>1, <1>2, StillStands

\* A quote is built of the answer, and of what the account knows of itself.
LEMMA QuoteStands ==
  ASSUME MessagesInv, NEW p \in held, getQuotedMessage(p)
  PROVE  MessagesInv'
  <1>1. p.id \in Ids BY DEF MessagesInv, Shape, Objects
  <1>2. PICK quoted : quoted = World[p.id].quotes OBVIOUS
  <1>3. quoted \in Ids BY <1>1, <1>2, WorldAssumption DEF getQuotedMessage
  <1>4. PICK form : form = World[p.id].form OBVIOUS
  <1>5. form \in {"pn", "lid"} BY <1>1, <1>4, WorldAssumption
  <1>6. PICK participant : participant = Id(World[quoted].writer, form) OBVIOUS
  <1>7. PICK sure : sure = (user = "me" /\ (knowsLid \/ participant # Id("me", "lid"))) OBVIOUS
  <1>8. PICK o : o = [id |-> quoted, key |-> QuotedKey(p, quoted, participant), quoted |-> TRUE,
                      text |-> 0, sure |-> sure]
    OBVIOUS
  <1>9. Holds(o) /\ UNCHANGED <<user, knowsLid, live, handled, resent, lists, asked, edits>>
    BY <1>2, <1>4, <1>6, <1>7, <1>8 DEF getQuotedMessage
  <1>10. Shape BY DEF MessagesInv
  <1>15. Came(p) BY DEF MessagesInv, ObjectsOwn, Built, getQuotedMessage
  <1>11. o \in Objects /\ Built(o)
    BY <1>1, <1>15, <1>3, <1>5, <1>6, <1>7, <1>8, <1>10, QuoteBuilt
  <1>12. o.text <= Len(edits) BY <1>8, EditsStay DEF MessagesInv, Shape
  <1>13. live' \subseteq Ids /\ handled' \in [Ids -> Nat] /\ resent' \in [Ids -> Nat]
         /\ user' = user /\ UNCHANGED <<knowsLid, declined, asked, edits>>
    BY <1>9 DEF MessagesInv, Shape, lists
  <1>14. HandledOnce' BY <1>9 DEF MessagesInv, HandledOnce
  <1> QED BY <1>9, <1>11, <1>12, <1>13, <1>14, OneMoreHeld

\* What is asked names what the object does.
LEMMA AskStands ==
  ASSUME MessagesInv, NEW o \in held, NEW time, Asks(o, time)
  PROVE  MessagesInv'
  <1>1. /\ asked' = asked \cup {[user |-> user, key |-> o.key, sure |-> o.sure, time |-> time]}
        /\ UNCHANGED <<user, knowsLid, live, handled, resent, held, lists, edits>>
    BY DEF Asks
  <1>2. o.sure => OfReal(o.key)
    BY KeyIsOne DEF MessagesInv, Shape, Objects, ObjectsOwn, Came, Built, OfReal
  <1>3. AsksOfReal' BY <1>1, <1>2 DEF MessagesInv, AsksOfReal, OfReal
  <1>4. Shape' BY <1>1 DEF MessagesInv, Shape
  <1>5. Len(edits) <= Len(edits') /\ Len(edits') \in Nat
    BY <1>1, EditsStay DEF MessagesInv, Shape
  <1>6. HandledOnce' /\ ObjectsOwn' /\ TextsAreEdits' BY <1>1, <1>5, Unheld
  <1>7. EditsOwn' /\ DeclinedOthers'
    BY <1>1, EditedStay, DeclinedStay DEF MessagesInv, lists
  <1> QED BY <1>3, <1>4, <1>6, <1>7 DEF MessagesInv

\* Only a message as it came has an age within the window, and only an own one with a
\* text is edited.
LEMMA EditStands ==
  ASSUME MessagesInv, NEW p \in held, edit(p)
  PROVE  MessagesInv'
  <1>1. p \in Objects /\ p.id \in Ids BY DEF MessagesInv, Shape, Objects
  <1>2. MayEdit(p) /\ user # Nil BY DEF edit
  <1>3. ~p.quoted BY <1>2, WorldAssumption DEF MayEdit, Age
  <1>4. Came(p) BY <1>3 DEF MessagesInv, ObjectsOwn, Built
  <1>5. World[p.id].writer = "me" /\ HasCaption(World[p.id].kind)
    BY <1>1, <1>2, <1>4, KeyIsOne DEF MayEdit, Came
  <1>6. PICK e : e = [id |-> p.id, user |-> user, state |-> "sent", late |-> FALSE] OBVIOUS
  <1>7. e \in Edits /\ EditOwn(e) BY <1>1, <1>2, <1>5, <1>6 DEF Edits, EditOwn, MessagesInv, Shape
  <1>8. edits' = Append(edits, e) BY <1>6 DEF edit
  <1>9. edits \in Seq(Edits) /\ Len(edits) \in Nat BY EditsStay DEF MessagesInv, Shape
  <1>10. /\ edits' \in Seq(Edits) /\ Len(edits') = Len(edits) + 1
         /\ \A n \in DOMAIN edits' : (n \in DOMAIN edits /\ edits'[n] = edits[n]) \/ edits'[n] = e
    BY <1>7, <1>8, <1>9, AppendProperties
  <1>11. EditsOwn'
    <2>1. \A n \in DOMAIN edits' : EditOwn(edits'[n])
      BY <1>7, <1>10 DEF MessagesInv, EditsOwn
    <2> QED BY <2>1 DEF EditsOwn, EditOwn
  <1>12. PICK m : m = Len(edits') OBVIOUS
  <1>13. m \in Nat /\ m = Len(edits) + 1 BY <1>9, <1>10, <1>12
  <1>14. PICK o : o = [p EXCEPT !.text = m] OBVIOUS
  <1>15. o \in Objects /\ Came(o) /\ o.text = m
    BY <1>1, <1>4, <1>13, <1>14 DEF Objects, Came
  <1>16. Holds(o) /\ UNCHANGED <<user, knowsLid, live, handled, resent, lists, asked>>
    BY <1>12, <1>14 DEF edit
  <1>17. /\ Shape /\ ObjectsOwn /\ TextsAreEdits
         /\ Len(edits) <= Len(edits') /\ o.text <= Len(edits') /\ Len(edits') \in Nat
    BY <1>9, <1>12, <1>13, <1>15 DEF MessagesInv
  <1>18. held' \subseteq Objects /\ ObjectsOwn' /\ TextsAreEdits'
    BY <1>9, <1>15, <1>16, <1>17, HoldsOwn
  <1>19. Shape' BY <1>10, <1>16, <1>18 DEF MessagesInv, Shape
  <1>20. HandledOnce' BY <1>16 DEF MessagesInv, HandledOnce
  <1>21. AsksOfReal' /\ DeclinedOthers'
    BY <1>16, AskedStays, DeclinedStay DEF MessagesInv, lists
  <1> QED BY <1>11, <1>18, <1>19, <1>20, <1>21 DEF MessagesInv

\* What is own and has a text is ignored only if it came after the window.
LEMMA ArrivalStands ==
  ASSUME MessagesInv, NEW n \in DOMAIN edits, EditArrives(n)
  PROVE  MessagesInv'
  <1>1. edits \in Seq(Edits) /\ Len(edits) \in Nat /\ edits[n] \in Edits
    BY EditsStay DEF MessagesInv, Shape
  <1>2. UNCHANGED <<user, knowsLid, live, handled, resent, held, lists, asked>> BY DEF EditArrives
  <1>3. PICK late : late = (now - writtenAt[edits[n].id] > Window) OBVIOUS
  <1>4. PICK shown : shown = (/\ ~late /\ edits[n].user = "me" /\ World[edits[n].id].writer = "me"
                              /\ HasCaption(World[edits[n].id].kind))
    OBVIOUS
  <1>5. late \in BOOLEAN /\ shown \in BOOLEAN BY <1>3, <1>4
  <1>6. edits' = [edits EXCEPT ![n].state = IF shown THEN "shown" ELSE "ignored", ![n].late = late]
    BY <1>3, <1>4 DEF EditArrives
  <1>7. PICK e : e = [edits[n] EXCEPT !.state = IF shown THEN "shown" ELSE "ignored", !.late = late]
    OBVIOUS
  <1>8. edits' = [edits EXCEPT ![n] = e] BY <1>6, <1>7
  <1>9. e \in Edits BY <1>1, <1>5, <1>7 DEF Edits
  <1>10. e.id = edits[n].id /\ e.user = edits[n].user /\ e.late = late
         /\ e.state = (IF shown THEN "shown" ELSE "ignored")
    BY <1>1, <1>7 DEF Edits
  <1>11. EditOwn(edits[n]) BY DEF MessagesInv, EditsOwn
  <1>12. EditOwn(e) BY <1>4, <1>10, <1>11 DEF EditOwn
  <1>13. edits' \in Seq(Edits) /\ Len(edits') = Len(edits) /\ DOMAIN edits' = DOMAIN edits
    BY <1>1, <1>8, <1>9
  <1>14. \A i \in DOMAIN edits' : edits'[i] = e \/ edits'[i] = edits[i] BY <1>8
  <1>15. EditsOwn'
    <2>1. \A i \in DOMAIN edits' : EditOwn(edits'[i])
      BY <1>12, <1>13, <1>14 DEF MessagesInv, EditsOwn
    <2> QED BY <2>1 DEF EditsOwn, EditOwn
  <1>16. Shape' BY <1>2, <1>13 DEF MessagesInv, Shape
  <1>17. HandledOnce' /\ ObjectsOwn' /\ TextsAreEdits' BY <1>1, <1>2, <1>13, Unheld
  <1>18. AsksOfReal' /\ DeclinedOthers'
    BY <1>2, AskedStays, DeclinedStay DEF MessagesInv, lists
  <1> QED BY <1>15, <1>16, <1>17, <1>18 DEF MessagesInv

\* A call of the account's own is told by its number, and by its LID if that is known.
LEMMA RingStands ==
  ASSUME MessagesInv, NEW of \in {"me", "peer"}, NEW form \in {"pn", "lid"}, NEW status,
         Rings(Id(of, form), status)
  PROVE  MessagesInv'
  <1>1. PICK from : from = Id(of, form) OBVIOUS
  <1>2. user = "me" /\ (declined' = declined \/ (declined' = declined \cup {from} /\ ~IsUser(from)))
        /\ UNCHANGED <<user, knowsLid, live, handled, resent, held, asked, edits>>
    BY <1>1 DEF Rings
  <1>3. ~IsUser(from) => from.of # "me" \/ (from.form = "lid" /\ ~knowsLid)
    BY <1>1, <1>2 DEF IsUser, myLid, Id, Nil
  <1>4. DeclinedOthers' BY <1>2, <1>3 DEF MessagesInv, DeclinedOthers
  <1>5. Shape' BY <1>2 DEF MessagesInv, Shape
  <1>6. Len(edits) <= Len(edits') /\ Len(edits') \in Nat BY <1>2, EditsStay DEF MessagesInv, Shape
  <1>7. HandledOnce' /\ ObjectsOwn' /\ TextsAreEdits' BY <1>2, <1>6, Unheld
  <1>8. AsksOfReal' /\ EditsOwn' BY <1>2, AskedStays, EditedStay DEF MessagesInv
  <1> QED BY <1>4, <1>5, <1>7, <1>8 DEF MessagesInv

\* Every step keeps the invariant.
LEMMA MessagesStep ==
  ASSUME MessagesInv, [MessagesNext]_messageVars
  PROVE  MessagesInv'
  <1>1. user \in {Nil, "me", "else"} BY DEF MessagesInv, Shape
  <1>2. CASE UNCHANGED messageVars BY <1>1, <1>2, StillStands DEF messageVars
  <1>3. CASE \E people \in SUBSET {"peer"} : Blocklist(people)
    BY <1>1, <1>3, StillStands DEF Blocklist
  <1>4. CASE \E of \in {"me", "peer"}, form \in {"pn", "lid"}, status \in {"offer", "timeout"} :
               Rings(Id(of, form), status)
    BY <1>4, RingStands
  <1>5. CASE Drops \/ Opens \/ Tick
    BY <1>1, <1>5, StillStands DEF Drops, Opens, Tick, objects, lists
  <1>6. CASE \E id \in Ids : sendAndWrap(id) \/ Delivers(id) \/ Syncs(id)
    BY <1>6, SendStands, DeliveryStands, SyncStands
  <1>7. CASE \E o \in held : getQuotedMessage(o) \/ Act(o) \/ edit(o)
                             \/ \E forEveryone \in BOOLEAN : delete(o, forEveryone)
    BY <1>7, QuoteStands, AskStands, EditStands DEF Act, delete
  <1>8. CASE \E n \in DOMAIN edits : EditArrives(n)
    BY <1>8, ArrivalStands
  <1> QED BY <1>2, <1>3, <1>4, <1>5, <1>6, <1>7, <1>8 DEF MessagesNext

LEMMA MessagesBegin ==
  ASSUME MessagesInit PROVE MessagesInv
  <1>1. Shape BY DEF MessagesInit, Shape
  <1>2. HandledOnce BY DEF MessagesInit, HandledOnce
  <1> QED BY <1>1, <1>2
       DEF MessagesInit, MessagesInv, ObjectsOwn, TextsAreEdits, AsksOfReal, EditsOwn, DeclinedOthers

THEOREM MessagesInvariance == MessagesSpec => []MessagesInv
  <1>1. MessagesInit => MessagesInv BY MessagesBegin
  <1>2. MessagesInv /\ [MessagesNext]_messageVars => MessagesInv' BY MessagesStep
  <1> QED BY <1>1, <1>2, PTL DEF MessagesSpec

\* A message reaches handlers once, however often history brings it, unless WhatsApp
\* delivers it again, and what was sent from here never does.
THEOREM MessagesAreHandledOnce == MessagesSpec => []HandledOnce
  <1>1. MessagesInv => HandledOnce BY DEF MessagesInv
  <1> QED BY <1>1, MessagesInvariance, PTL
-----------------------------------------------------------------------------
(***************************************************************************)
(* What is read off an object                                              *)
(***************************************************************************)
\* How an object's key tells who wrote the message: by its participant, or as the
\* account's own, or by the chat, which then is with the writer.
ByParticipant(o) ==
  /\ o.key.participant # NoId /\ o.key.participant.of = World[o.id].writer
  /\ o.key.participantAlt.of \in {World[o.id].writer, Nil}
ByAccount(o) == o.key.participant = NoId /\ o.key.fromMe /\ World[o.id].writer = "me"
ByChat(o) ==
  /\ o.key.participant = NoId /\ ~o.key.fromMe /\ o.key.remote # NoId
  /\ o.key.remote.of = World[o.id].writer /\ o.key.remoteAlt.of \in {World[o.id].writer, Nil}

\* Every object tells it in one of the three ways.
LEMMA WriterIsTold ==
  ASSUME MessagesInv, NEW o \in held
  PROVE  ByParticipant(o) \/ ByAccount(o) \/ ByChat(o)
  <1>1. o.id \in Ids BY DEF MessagesInv, Shape, Objects
  <1>2. PICK m : m = World[o.id] OBVIOUS
  <1>3. /\ m.chat \in {"direct", "group"} /\ m.form \in {"pn", "lid"} /\ m.writer # Nil
        /\ m.chat = "direct" => m.writer \in {"me", "peer"}
        /\ m.here => m.writer = "me"
    BY <1>1, <1>2, WorldAssumption
  <1>4. CASE Built(o)
    <2>1. o.key.participant.of # Nil BY <1>2, <1>3, <1>4 DEF Built
    <2>2. o.key.participant # NoId BY <2>1 DEF NoId, Id
    <2> QED BY <1>4, <2>2 DEF Built, ByParticipant, NoId, Id
  <1>5. CASE Came(o)
    <2>1. o.key = KeyOf(o.id) BY <1>5 DEF Came
    <2>2. CASE m.chat = "group" /\ ~m.here
      <3>1. o.key.participant = Id(m.writer, m.form)
            /\ o.key.participantAlt \in {Id(m.writer, Other(m.form)), NoId}
        BY <1>2, <2>1, <2>2 DEF KeyOf
      <3> QED BY <1>2, <1>3, <3>1 DEF ByParticipant, NoId, Id
    <2>3. CASE ~(m.chat = "group" /\ ~m.here)
      <3>1. o.key.participant = NoId /\ o.key.fromMe = (m.writer = "me")
        BY <1>2, <2>1, <2>3 DEF KeyOf
      <3>2. CASE m.writer = "me" BY <1>2, <3>1, <3>2 DEF ByAccount
      <3>3. CASE m.writer # "me"
        <4>1. m.chat = "direct" /\ m.writer = "peer" BY <1>3, <2>3, <3>3
        <4>2. o.key.remote = Id("peer", m.form)
              /\ o.key.remoteAlt \in {Id("peer", Other(m.form)), NoId}
          BY <1>2, <2>1, <4>1 DEF KeyOf, ChatOf
        <4>3. Id("peer", m.form) # NoId BY DEF Id, NoId, Nil
        <4>4. o.key.remote.of = "peer" /\ o.key.remote # NoId BY <4>2, <4>3 DEF Id
        <4>5. o.key.remoteAlt.of \in {"peer", Nil} BY <4>2 DEF NoId, Id
        <4>6. ~o.key.fromMe BY <3>1, <3>3
        <4>7. ByChat(o) BY <1>2, <3>1, <4>1, <4>4, <4>5, <4>6 DEF ByChat
        <4> QED BY <4>7
      <3> QED BY <3>2, <3>3
    <2> QED BY <2>2, <2>3
  <1> QED BY <1>4, <1>5 DEF MessagesInv, ObjectsOwn

\* A contact made of a sender and an alternative of the same person names that person.
LEMMA ContactNames ==
  ASSUME NEW o, NEW alt, NEW writer, Sender(o).of \in {writer, Nil}, alt.of \in {writer, Nil}
  PROVE  /\ ContactOf(o, alt).id = Sender(o)
         /\ ContactOf(o, alt).phone.of \in {writer, Nil}
         /\ ContactOf(o, alt).lid.of \in {writer, Nil}
  BY DEF ContactOf, NoId, Id

\* The number of a contact is one, and is its id if that is one.
LEMMA PhoneIsNumber ==
  ASSUME NEW o, NEW alt
  PROVE  LET contact == ContactOf(o, alt) IN
         /\ contact.phone # NoId => contact.phone.form = "pn"
         /\ contact.id.form = "pn" => contact.phone = contact.id
  BY DEF ContactOf, NoId, Id

LEMMA WritersNamed ==
  ASSUME MessagesInv PROVE WriterIsNamed
  <1> SUFFICES ASSUME NEW o \in held
               PROVE  LET writer == World[o.id].writer
                          contact == getContact(o)
                          named == {contact.id.of, contact.phone.of, contact.lid.of}
                      IN  /\ user = "me" => senderId(o).of = writer /\ contact.id.of = writer
                          /\ user # "else" => named \subseteq {writer, Nil}
    BY DEF WriterIsNamed
  <1>1. PICK writer : writer = World[o.id].writer OBVIOUS
  <1>2. user \in {Nil, "me", "else"} BY DEF MessagesInv, Shape
  <1>3. ByParticipant(o) \/ ByAccount(o) \/ ByChat(o) BY WriterIsTold
  <1>4. PICK contact : contact = getContact(o) OBVIOUS
  <1>5. CASE ByParticipant(o)
    <2>1. Sender(o) = o.key.participant /\ senderId(o) = o.key.participant
          /\ contact = ContactOf(o, o.key.participantAlt)
      BY <1>4, <1>5 DEF ByParticipant, Sender, senderId, getContact
    <2>2. Sender(o).of = writer /\ o.key.participantAlt.of \in {writer, Nil}
      BY <1>1, <1>5, <2>1 DEF ByParticipant
    <2>3. contact.id.of = writer /\ {contact.phone.of, contact.lid.of} \subseteq {writer, Nil}
      <3>1. PICK alt : contact = ContactOf(o, alt) /\ alt.of \in {writer, Nil} BY <2>1, <2>2
      <3>2. Sender(o).of \in {writer, Nil} BY <2>2
      <3>3. contact.id = Sender(o) /\ contact.phone.of \in {writer, Nil} /\ contact.lid.of \in {writer, Nil}
        BY <3>1, <3>2, ContactNames
      <3> QED BY <2>2, <3>3
    <2> QED BY <1>1, <1>4, <2>1, <2>2, <2>3
  <1>6. CASE ByAccount(o)
    <2>1. writer = "me" BY <1>1, <1>6 DEF ByAccount
    <2>2. CASE user = "me"
      <3>1. Sender(o) = Id("me", "pn") /\ senderId(o) = Id("me", "pn")
            /\ contact = ContactOf(o, myLid) /\ myLid \in {Id("me", "lid"), NoId}
        BY <1>4, <1>6, <2>2 DEF ByAccount, Sender, senderId, getContact, myLid, Nil
      <3>2. Sender(o).of = writer /\ myLid.of \in {writer, Nil} BY <2>1, <3>1 DEF Id, NoId
      <3>3. contact.id.of = writer /\ {contact.phone.of, contact.lid.of} \subseteq {writer, Nil}
        <4>1. PICK alt : contact = ContactOf(o, alt) /\ alt.of \in {writer, Nil} BY <3>1, <3>2
        <4>2. Sender(o).of \in {writer, Nil} BY <3>2
        <4>3. contact.id = Sender(o) /\ contact.phone.of \in {writer, Nil} /\ contact.lid.of \in {writer, Nil}
          BY <4>1, <4>2, ContactNames
        <4> QED BY <3>2, <4>3
      <3> QED BY <1>1, <1>4, <2>1, <3>1, <3>3 DEF Id
    <2>3. CASE user = Nil
      <3>1. Sender(o) = NoId /\ contact = ContactOf(o, NoId)
        BY <1>4, <1>6, <2>3 DEF ByAccount, Sender, getContact
      <3>2. Sender(o).of \in {writer, Nil} /\ NoId.of \in {writer, Nil} BY <3>1 DEF NoId, Id
      <3>3. {contact.id.of, contact.phone.of, contact.lid.of} \subseteq {writer, Nil}
        BY <3>1, <3>2, ContactNames
      <3> QED BY <1>1, <1>4, <2>3, <3>3 DEF Nil
    <2>4. CASE user = "else" BY <2>4
    <2> QED BY <1>2, <2>2, <2>3, <2>4
  <1>7. CASE ByChat(o)
    <2>1. Sender(o) = o.key.remote /\ senderId(o) = o.key.remote
          /\ contact = ContactOf(o, o.key.remoteAlt)
      BY <1>4, <1>7 DEF ByChat, Sender, senderId, getContact
    <2>2. Sender(o).of = writer /\ o.key.remoteAlt.of \in {writer, Nil}
      BY <1>1, <1>7, <2>1 DEF ByChat
    <2>3. contact.id.of = writer /\ {contact.phone.of, contact.lid.of} \subseteq {writer, Nil}
      <3>1. PICK alt : contact = ContactOf(o, alt) /\ alt.of \in {writer, Nil} BY <2>1, <2>2
      <3>2. Sender(o).of \in {writer, Nil} BY <2>2
      <3>3. contact.id = Sender(o) /\ contact.phone.of \in {writer, Nil} /\ contact.lid.of \in {writer, Nil}
        BY <3>1, <3>2, ContactNames
      <3> QED BY <2>2, <3>3
    <2> QED BY <1>1, <1>4, <2>1, <2>2, <2>3
  <1> QED BY <1>3, <1>5, <1>6, <1>7

LEMMA BlockedSeen ==
  ASSUME MessagesInv PROVE BlockedIsSeen
  <1>1. ASSUME NEW o \in held,
               NEW contact, contact = getContact(o), contact.phone # NoId
        PROVE  isBlocked(contact) <=> contact.phone.of \in blocked
    <2>1. PICK alt : contact = ContactOf(o, alt) BY <1>1 DEF getContact
    <2>2. contact.phone.form = "pn" /\ (contact.id.form = "pn" => contact.phone = contact.id)
      BY <1>1, <2>1, PhoneIsNumber
    <2> QED BY <1>1, <2>2 DEF isBlocked, HasBlocked
  <1>2. DeclinedOthers BY DEF MessagesInv
  <1> QED BY <1>1, <1>2 DEF BlockedIsSeen, DeclinedOthers

\* Who wrote a message, what it quotes, whose contact is blocked and what may be edited is
\* told from what the account knows of itself, and is right or refused.
THEOREM WritersAreAlwaysKnown == MessagesSpec => []WritersAreKnown
  <1>1. ASSUME MessagesInv PROVE MessagesTypeOK
    <2>1. edits \in Seq(Edits) /\ Len(edits) \in Nat BY <1>1, EditsStay DEF MessagesInv, Shape
    <2>2. \A o \in held : o.id \in Ids /\ o.text \in Nat /\ o.text <= Len(edits)
      BY <1>1 DEF MessagesInv, Shape, Objects, TextsAreEdits
    <2>3. \A o \in held : o.text \in 0 .. Len(edits) BY <2>1, <2>2
    <2>4. \A n \in DOMAIN edits : edits[n].state \in {"sent", "shown", "ignored"}
      <3>1. \A n \in DOMAIN edits : edits[n] \in Edits BY <2>1, EditsStay
      <3> QED BY <3>1 DEF Edits
    <2> QED BY <1>1, <2>2, <2>3, <2>4 DEF MessagesTypeOK, MessagesInv, Shape
  <1>2. MessagesInv => EditTakesHold BY DEF MessagesInv, EditsOwn, EditOwn, EditTakesHold
  <1>3. MessagesInv => AsksOfReal BY DEF MessagesInv
  <1>4. MessagesInv => WriterIsNamed /\ BlockedIsSeen BY WritersNamed, BlockedSeen
  <1>5. MessagesInv => WritersAreKnown BY <1>1, <1>2, <1>3, <1>4 DEF WritersAreKnown
  <1> QED BY <1>5, MessagesInvariance, PTL
-----------------------------------------------------------------------------
(***************************************************************************)
(* Chats, which are a machine of their own                                 *)
(***************************************************************************)
ChatReports == [chat : Chats, is : {"message", "upsert", "update", "delete"}, unread : Int]

ChatShape ==
  /\ account \in 1 .. MaxAccounts /\ unlinked \in BOOLEAN /\ member \subseteq Groups
  /\ DOMAIN phone \subseteq Chats /\ DOMAIN store \subseteq Chats
  /\ \A c \in DOMAIN phone : phone[c] \in Int
  /\ events \in Seq(ChatReports)
  /\ marker \in [Chats -> 0 .. account]
  /\ DOMAIN deletes \subseteq Chats /\ \A c \in DOMAIN deletes : deletes[c] \in {"asked", "done"}
  /\ listing # NoListing => listing.chats \subseteq Chats
  /\ {o.chat : o \in answered} \subseteq Chats

\* Two holders agree on a chat.
Same(f, g, c) == (c \in DOMAIN f <=> c \in DOMAIN g) /\ (c \in DOMAIN f => f[c] = g[c])

\* What a count says of a chat's on the phone: that it is so many, or, of those reported
\* one after the other, that they are some of them.
Tells(count, pieces, f, c) == IF c \in pieces THEN count \in 1 .. f[c] ELSE count = f[c]

\* A store has a chat if the phone does, and tells of its count.
Mirrors(g, pieces, f, c) ==
  (c \in DOMAIN g <=> c \in DOMAIN f) /\ (c \in DOMAIN f => Tells(g[c], pieces, f, c))

\* The last report of a chat under way, and what a report says of a phone's chats.
LastOf(s, i, c) ==
  /\ i \in DOMAIN s /\ s[i].chat = c
  /\ \A j \in DOMAIN s : j > i => s[j].chat # c
Says(e, pieces, f) ==
  IF e.is = "delete" THEN e.chat \notin DOMAIN f
  ELSE e.chat \in DOMAIN f /\ Tells(e.unread, pieces, f, e.chat)
Under(s, c) == \E i \in DOMAIN s : s[i].chat = c

\* Of a chat whose deletion crossed no report, the last report under way says what the
\* phone has, or a part of what is unread of it; with none the store says it, unless its deletion was carried out and
\* the answer is on its way.  While a deletion is under way no report is.
Follows(c) ==
  /\ \A i \in DOMAIN events : LastOf(events, i, c) => Says(events[i], piecemeal, phone)
  /\ ~Under(events, c) =>
       IF c \in DOMAIN deletes /\ deletes[c] = "done" THEN c \notin DOMAIN phone
       ELSE Mirrors(store, piecemeal, phone, c)
  /\ c \in DOMAIN deletes => ~Under(events, c)
PhoneIsFollowed == unlinked \/ \A c \in Chats \ crossed : Follows(c)

\* The messages seen are of the account that is linked.
SeenAreOwn == unlinked \/ \A c \in Chats : marker[c] \in {0, account}

\* The inductive invariant.
ChatsInv == ChatShape /\ PhoneIsFollowed /\ SeenAreOwn /\ MarkersAreOwn

\* A report that was added, and one that was taken off.
Added(s, e, t) ==
  /\ t \in Seq(ChatReports) /\ Under(t, e.chat)
  /\ \A i \in DOMAIN t : LastOf(t, i, e.chat) => t[i] = e
  /\ \A c : c # e.chat =>
       /\ Under(t, c) <=> Under(s, c)
       /\ \A i \in DOMAIN t : LastOf(t, i, c) => (i \in DOMAIN s /\ LastOf(s, i, c) /\ t[i] = s[i])

Taken(s, e, t) ==
  /\ t \in Seq(ChatReports) /\ e \in ChatReports /\ 1 \in DOMAIN s /\ s[1] = e
  /\ ~Under(t, e.chat) => LastOf(s, 1, e.chat)
  /\ \A c : c # e.chat => (Under(t, c) <=> Under(s, c))
  /\ \A c : Under(t, c) => Under(s, c)
  /\ \A c : \A i \in DOMAIN t :
       LastOf(t, i, c) => (i + 1 \in DOMAIN s /\ LastOf(s, i + 1, c) /\ t[i] = s[i + 1])

\* A report more: it is the last of its chat, and that of another is what it was.
LEMMA OneMoreReport ==
  ASSUME NEW s \in Seq(ChatReports), NEW e \in ChatReports, NEW t, t = Append(s, e)
  PROVE  Added(s, e, t)
  <1>1. PICK n : n = Len(s) OBVIOUS
  <1>2. /\ t \in Seq(ChatReports) /\ n \in Nat /\ DOMAIN s = 1 .. n /\ DOMAIN t = 1 .. (n + 1)
        /\ t[n + 1] = e /\ \A i \in DOMAIN s : t[i] = s[i]
    BY <1>1, AppendProperties
  <1>3. Under(t, e.chat) BY <1>2 DEF Under
  <1>4. ASSUME NEW i \in DOMAIN t, LastOf(t, i, e.chat) PROVE t[i] = e
    BY <1>2, <1>4 DEF LastOf
  <1>5. ASSUME NEW c, c # e.chat PROVE Under(t, c) <=> Under(s, c)
    BY <1>2, <1>5 DEF Under
  <1>6. ASSUME NEW c, c # e.chat, NEW i \in DOMAIN t, LastOf(t, i, c)
        PROVE  i \in DOMAIN s /\ LastOf(s, i, c) /\ t[i] = s[i]
    <2>1. i # n + 1 BY <1>2, <1>6 DEF LastOf
    <2>2. i \in DOMAIN s BY <1>2, <2>1
    <2> QED BY <1>2, <1>6, <2>2 DEF LastOf
  <1> QED BY <1>2, <1>3, <1>4, <1>5, <1>6 DEF Added

\* A report less: the first was the last of its chat if no other is under way.
LEMMA OneReportLess ==
  ASSUME NEW s \in Seq(ChatReports), s # <<>>, NEW t, t = Tail(s), NEW e, e = Head(s)
  PROVE  Taken(s, e, t)
  <1>1. PICK n : n = Len(s) - 1 OBVIOUS
  <1>2. /\ t \in Seq(ChatReports) /\ n \in Nat /\ DOMAIN s = 1 .. (n + 1) /\ DOMAIN t = 1 .. n
        /\ s[1] = e /\ e \in ChatReports /\ \A i \in 1 .. n : t[i] = s[i + 1]
    BY <1>1, HeadTailProperties
  <1>3. 1 \in DOMAIN s BY <1>2
  <1>4. \A j \in DOMAIN s : j > 1 => (j - 1 \in DOMAIN t /\ t[j - 1] = s[j])
    BY <1>2
  <1>5. ASSUME ~Under(t, e.chat) PROVE LastOf(s, 1, e.chat)
    BY <1>2, <1>3, <1>4, <1>5 DEF LastOf, Under
  <1>6. ASSUME NEW c, Under(t, c) PROVE Under(s, c)
    <2>1. PICK i \in 1 .. n : t[i].chat = c BY <1>2, <1>6 DEF Under
    <2>2. i + 1 \in DOMAIN s /\ s[i + 1].chat = c BY <1>2, <2>1
    <2> QED BY <2>2 DEF Under
  <1>7. ASSUME NEW c, c # e.chat, Under(s, c) PROVE Under(t, c)
    <2>1. PICK i \in DOMAIN s : s[i].chat = c BY <1>7 DEF Under
    <2>2. i # 1 BY <1>2, <1>7, <2>1
    <2>3. i - 1 \in DOMAIN t /\ t[i - 1] = s[i] BY <1>2, <1>4, <2>1, <2>2
    <2> QED BY <2>1, <2>3 DEF Under
  <1>8. ASSUME NEW c, NEW i \in DOMAIN t, LastOf(t, i, c)
        PROVE  i + 1 \in DOMAIN s /\ LastOf(s, i + 1, c) /\ t[i] = s[i + 1]
    <2>1. i \in 1 .. n /\ i + 1 \in DOMAIN s /\ t[i] = s[i + 1] BY <1>2
    <2>2. s[i + 1].chat = c BY <1>8, <2>1 DEF LastOf
    <2>3. ASSUME NEW j \in DOMAIN s, j > i + 1 PROVE s[j].chat # c
      <3>1. j - 1 \in DOMAIN t /\ t[j - 1] = s[j] /\ j - 1 > i BY <1>2, <1>4, <2>1, <2>3
      <3> QED BY <1>8, <3>1 DEF LastOf
    <2> QED BY <2>1, <2>2, <2>3 DEF LastOf
  <1> QED BY <1>2, <1>3, <1>5, <1>6, <1>7, <1>8 DEF Taken
-----------------------------------------------------------------------------
(***************************************************************************)
(* The steps of the chats                                                  *)
(***************************************************************************)
\* A report of a chat, whose deletion it crosses if one is under way.
LEMMA ReportFollows ==
  ASSUME ChatShape, PhoneIsFollowed, NEW c \in Chats, NEW e \in ChatReports, e.chat = c,
         events' = Append(events, e), Crosses(c), Says(e, piecemeal', phone'),
         \A x : x # c => Same(phone', phone, x) /\ (x \in piecemeal' <=> x \in piecemeal),
         UNCHANGED <<unlinked, store, deletes>>
  PROVE  PhoneIsFollowed' /\ events' \in Seq(ChatReports)
  <1>1. events \in Seq(ChatReports) BY DEF ChatShape
  <1>2. PICK t : t = events' OBVIOUS
  <1>0. PICK s : s = events OBVIOUS
  <1>3. s \in Seq(ChatReports) /\ t = Append(s, e) BY <1>0, <1>1, <1>2
  <1>9. Added(s, e, t) BY <1>3, OneMoreReport
  <1>4. /\ t \in Seq(ChatReports) /\ Under(t, c)
        /\ \A i \in DOMAIN t : LastOf(t, i, c) => t[i] = e
        /\ \A x : x # c =>
             /\ Under(t, x) <=> Under(events, x)
             /\ \A i \in DOMAIN t :
                  LastOf(t, i, x) => (i \in DOMAIN events /\ LastOf(events, i, x) /\ t[i] = events[i])
    BY <1>0, <1>9 DEF Added
  <1>5. crossed' = (IF c \in DOMAIN deletes THEN crossed \cup {c} ELSE crossed) BY DEF Crosses
  <1>6. ASSUME ~unlinked, NEW x \in Chats \ crossed' PROVE Follows(x)'
    <2>1. x \notin crossed /\ Follows(x) BY <1>5, <1>6 DEF PhoneIsFollowed
    <2>2. CASE x = c
      <3>1. x \notin DOMAIN deletes BY <1>5, <1>6, <2>2
      <3>2. \A i \in DOMAIN t : LastOf(t, i, x) => Says(t[i], piecemeal', phone') BY <1>4, <2>2
      <3>3. Under(t, x) BY <1>4, <2>2
      <3> QED BY <1>2, <3>1, <3>2, <3>3 DEF Follows
    <2>3. CASE x # c
      <3>1. Same(phone', phone, x) /\ (x \in piecemeal' <=> x \in piecemeal) BY <2>3
      <3>2. ASSUME NEW i \in DOMAIN t, LastOf(t, i, x) PROVE Says(t[i], piecemeal', phone')
        <4>1. i \in DOMAIN events /\ LastOf(events, i, x) /\ t[i] = events[i] BY <1>4, <2>3, <3>2
        <4>2. Says(events[i], piecemeal, phone) /\ events[i].chat = x BY <2>1, <4>1 DEF Follows, LastOf
        <4> QED BY <3>1, <4>1, <4>2 DEF Says, Tells, Same
      <3>3. Under(t, x) <=> Under(events, x) BY <1>4, <2>3
      <3> QED BY <1>2, <2>1, <3>1, <3>2, <3>3 DEF Follows, Mirrors, Tells, Same
    <2> QED BY <2>2, <2>3
  <1> QED BY <1>2, <1>4, <1>6 DEF PhoneIsFollowed

\* Where reports, phone, store and deletions are as they were.
LEMMA PhoneStays ==
  ASSUME PhoneIsFollowed, UNCHANGED <<unlinked, phone, piecemeal, events, store, deletes, crossed>>
  PROVE  PhoneIsFollowed'
  BY DEF PhoneIsFollowed, Follows

\* Markers and modifications as they were.
LEMMA MarkersStay ==
  ASSUME SeenAreOwn, MarkersAreOwn, UNCHANGED <<account, unlinked, marker, modified>>
  PROVE  SeenAreOwn' /\ MarkersAreOwn'
  BY DEF SeenAreOwn, MarkersAreOwn

\* A report of a chat says what the phone has then, and another chat is as it was.
Telling(c) ==
  \E e \in ChatReports :
    /\ e.chat = c /\ events' = Append(events, e) /\ Says(e, piecemeal', phone')
    /\ \A x : x # c => Same(phone', phone, x) /\ (x \in piecemeal' <=> x \in piecemeal)
    /\ DOMAIN phone' \subseteq Chats /\ \A x \in DOMAIN phone' : phone'[x] \in Int

\* A chat given a count, of which its report tells.
LEMMA CountTells ==
  ASSUME ChatShape, NEW c \in Chats, NEW is \in {"message", "upsert", "update"},
         NEW count \in Int, NEW part \in Int,
         phone' = With(phone, c, count), Report(c, is, part),
         IF c \in piecemeal' THEN part \in 1 .. count ELSE part = count,
         \A x : x # c => (x \in piecemeal' <=> x \in piecemeal)
  PROVE  Telling(c)
  <1>1. PICK e : e = [chat |-> c, is |-> is, unread |-> part] OBVIOUS
  <1>2. e \in ChatReports /\ e.chat = c /\ e.is = is /\ e.unread = part BY <1>1 DEF ChatReports
  <1>3. events' = Append(events, e) BY <1>1 DEF Report
  <1>4. PICK g : g = phone' OBVIOUS
  <1>5. DOMAIN g = {c} \cup DOMAIN phone /\ g[c] = count
        /\ \A x \in DOMAIN phone : x # c => g[x] = phone[x]
    BY <1>4 DEF With
  <1>6. Says(e, piecemeal', g) BY <1>2, <1>5 DEF Says, Tells
  <1>7. \A x : x # c => Same(g, phone, x) BY <1>5 DEF Same
  <1>8. DOMAIN g \subseteq Chats /\ \A x \in DOMAIN g : g[x] \in Int BY <1>5 DEF ChatShape
  <1> QED BY <1>2, <1>3, <1>4, <1>6, <1>7, <1>8 DEF Telling

\* Messages, a chat that is synced, turned read or unread, or that vanishes.
LEMMA PhoneStands ==
  ASSUME ChatsInv, NEW c \in Chats,
         \/ \E n \in 1 .. MaxMessages : Message(c, n)
         \/ \E unread \in 0 .. MaxMessages : Synced(c, unread)
         \/ \E unread \in {0, -1} : Turns(c, unread)
         \/ Vanishes(c)
  PROVE  ChatsInv'
  <1>1. /\ UNCHANGED <<account, unlinked, member, store, marker, modified, deletes, listing, answered>>
        /\ Crosses(c)
    BY DEF Message, Synced, Turns, Vanishes, session, answers
  <1>2. Telling(c)
    <2>0. ChatShape BY DEF ChatsInv
    <2>1. CASE \E n \in 1 .. MaxMessages : Message(c, n)
      <3>1. PICK n \in 1 .. MaxMessages : Message(c, n) BY <2>1
      <3>2. PICK u : u = Unread(phone, c) OBVIOUS
      <3>3. u \in Nat BY <2>0, <3>2 DEF ChatShape, Unread
      <3>4. n \in Int /\ n > 0 OBVIOUS
      <3>5. /\ phone' = With(phone, c, u + n) /\ Report(c, "message", n)
            /\ piecemeal' = (IF u > 0 THEN piecemeal \cup {c} ELSE piecemeal \ {c})
        BY <3>1, <3>2 DEF Message
      <3>6. IF c \in piecemeal' THEN n \in 1 .. (u + n) ELSE n = u + n BY <3>3, <3>4, <3>5
      <3>7. \A x : x # c => (x \in piecemeal' <=> x \in piecemeal) BY <3>5
      <3>8. u + n \in Int BY <3>3, <3>4
      <3> QED BY <2>0, <3>4, <3>5, <3>6, <3>7, <3>8, CountTells
    <2>2. CASE \E unread \in 0 .. MaxMessages : Synced(c, unread)
      <3>1. PICK unread \in 0 .. MaxMessages : Synced(c, unread) BY <2>2
      <3>2. /\ phone' = With(phone, c, unread) /\ Report(c, "upsert", unread)
            /\ piecemeal' = piecemeal \ {c} /\ unread \in Int
        BY <3>1 DEF Synced
      <3> QED BY <2>0, <3>2, CountTells
    <2>3. CASE \E unread \in {0, -1} : Turns(c, unread)
      <3>1. PICK unread \in {0, -1} : Turns(c, unread) BY <2>3
      <3>2. /\ phone' = With(phone, c, unread) /\ Report(c, "update", unread)
            /\ piecemeal' = piecemeal \ {c} /\ unread \in Int
        BY <3>1 DEF Turns
      <3> QED BY <2>0, <3>2, CountTells
    <2>4. CASE Vanishes(c)
      <3>1. PICK e : e = [chat |-> c, is |-> "delete", unread |-> 0] OBVIOUS
      <3>2. e \in ChatReports /\ e.chat = c /\ e.is = "delete" BY <3>1 DEF ChatReports
      <3>3. events' = Append(events, e) /\ piecemeal' = piecemeal
        BY <2>4, <3>1 DEF Report, Vanishes
      <3>4. PICK g : g = phone' OBVIOUS
      <3>5. DOMAIN g = DOMAIN phone \ {c} /\ \A x \in DOMAIN g : g[x] = phone[x]
        BY <2>4, <3>4 DEF Vanishes, Without
      <3>6. Says(e, piecemeal', g) BY <3>2, <3>5 DEF Says
      <3>7. \A x : x # c => Same(g, phone, x) BY <3>5 DEF Same
      <3>8. DOMAIN g \subseteq Chats /\ \A x \in DOMAIN g : g[x] \in Int
        BY <2>0, <3>5 DEF ChatShape
      <3> QED BY <3>2, <3>3, <3>4, <3>6, <3>7, <3>8 DEF Telling
    <2> QED BY <2>1, <2>2, <2>3, <2>4
  <1>3. PICK e \in ChatReports :
               /\ e.chat = c /\ events' = Append(events, e) /\ Says(e, piecemeal', phone')
               /\ \A x : x # c => Same(phone', phone, x) /\ (x \in piecemeal' <=> x \in piecemeal)
               /\ DOMAIN phone' \subseteq Chats /\ \A x \in DOMAIN phone' : phone'[x] \in Int
    BY <1>2 DEF Telling
  <1>4. ChatShape /\ PhoneIsFollowed BY DEF ChatsInv
  <1>5. PhoneIsFollowed' /\ events' \in Seq(ChatReports) BY <1>1, <1>3, <1>4, ReportFollows
  <1>6. SeenAreOwn' /\ MarkersAreOwn' BY <1>1, MarkersStay DEF ChatsInv
  <1>7. ChatShape' BY <1>1, <1>3, <1>4, <1>5 DEF ChatShape, NoListing
  <1> QED BY <1>5, <1>6, <1>7 DEF ChatsInv

\* A report reaches the store: what it says stands, if it was the last of its chat.
LEMMA ReportedStands ==
  ASSUME ChatsInv, Reported
  PROVE  ChatsInv'
  <1>1. /\ events # <<>> /\ events' = Tail(events)
        /\ UNCHANGED <<account, unlinked, phone, member, piecemeal, modified, deletes, crossed, listing, answered>>
    BY DEF Reported, session, world, asks, answers
  <1>2. PICK s : s = events OBVIOUS
  <1>3. PICK t : t = Tail(s) OBVIOUS
  <1>4. PICK e : e = Head(s) OBVIOUS
  <1>5. s \in Seq(ChatReports) /\ s # <<>> BY <1>1, <1>2 DEF ChatsInv, ChatShape
  <1>61. Taken(s, e, t) BY <1>3, <1>4, <1>5, OneReportLess
  <1>6. /\ t \in Seq(ChatReports) /\ e \in ChatReports /\ 1 \in DOMAIN s /\ s[1] = e
        /\ ~Under(t, e.chat) => LastOf(s, 1, e.chat)
        /\ \A c : c # e.chat => (Under(t, c) <=> Under(s, c))
        /\ \A c : Under(t, c) => Under(s, c)
        /\ \A c : \A i \in DOMAIN t : LastOf(t, i, c) =>
             (i + 1 \in DOMAIN s /\ LastOf(s, i + 1, c) /\ t[i] = s[i + 1])
    BY <1>61 DEF Taken
  <1>7. e.chat \in Chats BY <1>6 DEF ChatReports
  <1>8. PICK g : g = store' OBVIOUS
  <1>9. g = (IF e.is = "delete" THEN Without(store, e.chat) ELSE With(store, e.chat, e.unread))
        /\ marker' = (IF e.is = "message" THEN [marker EXCEPT ![e.chat] = account] ELSE marker)
    BY <1>2, <1>4, <1>8 DEF Reported
  <1>10. /\ IF e.is = "delete" THEN e.chat \notin DOMAIN g ELSE e.chat \in DOMAIN g /\ g[e.chat] = e.unread
         /\ (\A x : x # e.chat => Same(g, store, x)) /\ DOMAIN g \subseteq DOMAIN store \cup {e.chat}
    <2>1. CASE e.is = "delete"
      <3>1. DOMAIN g = DOMAIN store \ {e.chat} /\ \A x \in DOMAIN g : g[x] = store[x]
        BY <1>9, <2>1 DEF Without
      <3> QED BY <2>1, <3>1 DEF Same
    <2>2. CASE e.is # "delete"
      <3>1. DOMAIN g = {e.chat} \cup DOMAIN store /\ g[e.chat] = e.unread
            /\ \A x \in DOMAIN store : x # e.chat => g[x] = store[x]
        BY <1>9, <2>2 DEF With
      <3> QED BY <2>2, <3>1 DEF Same
    <2> QED BY <2>1, <2>2
  <1>11. ASSUME ~unlinked, NEW x \in Chats \ crossed PROVE Follows(x)'
    <2>1. Follows(x) BY <1>11 DEF ChatsInv, PhoneIsFollowed
    <2>2. \A i \in DOMAIN t : LastOf(t, i, x) => Says(t[i], piecemeal, phone)
      BY <1>2, <1>6, <2>1 DEF Follows
    <2>3. x \in DOMAIN deletes => ~Under(t, x) BY <1>2, <1>6, <2>1 DEF Follows
    <2>4. ASSUME ~Under(t, x)
          PROVE IF x \in DOMAIN deletes /\ deletes[x] = "done" THEN x \notin DOMAIN phone
                ELSE Mirrors(g, piecemeal, phone, x)
      <3>1. CASE x = e.chat
        <4>1. LastOf(s, 1, x) /\ Under(s, x) BY <1>6, <2>4, <3>1 DEF Under
        <4>2. x \notin DOMAIN deletes BY <1>2, <2>1, <4>1 DEF Follows
        <4>3. Says(e, piecemeal, phone) BY <1>2, <1>6, <2>1, <4>1 DEF Follows
        <4>4. Mirrors(g, piecemeal, phone, x) BY <1>10, <3>1, <4>3 DEF Says, Mirrors
        <4> QED BY <4>2, <4>4
      <3>2. CASE x # e.chat
        <4>1. ~Under(s, x) /\ Same(g, store, x) BY <1>6, <1>10, <2>4, <3>2
        <4> QED BY <1>2, <2>1, <4>1 DEF Follows, Mirrors, Same
      <3> QED BY <3>1, <3>2
    <2> QED BY <1>1, <1>2, <1>3, <1>8, <2>2, <2>3, <2>4 DEF Follows
  <1>12. PhoneIsFollowed' BY <1>1, <1>11 DEF PhoneIsFollowed, ChatsInv
  <1>13. marker' \in [Chats -> 0 .. account] BY <1>7, <1>9 DEF ChatsInv, ChatShape
  <1>14. SeenAreOwn' BY <1>1, <1>7, <1>9 DEF ChatsInv, SeenAreOwn, ChatShape
  <1>15. MarkersAreOwn' BY <1>1 DEF ChatsInv, MarkersAreOwn
  <1>16. DOMAIN store' \subseteq Chats BY <1>7, <1>8, <1>10 DEF ChatsInv, ChatShape
  <1>17. events' \in Seq(ChatReports) BY <1>1, <1>2, <1>3, <1>6
  <1>18. ChatShape' BY <1>1, <1>13, <1>16, <1>17 DEF ChatsInv, ChatShape, NoListing
  <1> QED BY <1>12, <1>14, <1>15, <1>18 DEF ChatsInv

\* Another account: after a logout all starts anew, and else only for what was unlinked.
LEMMA RelinkStands ==
  ASSUME ChatsInv, UnlinkedAndRelinked \/ LoggedOutAndRelinked
  PROVE  ChatsInv'
  <1>1. /\ account < MaxAccounts /\ account' = account + 1 /\ phone' = <<>> /\ member' \in SUBSET Groups
        /\ events' = <<>> /\ deletes' = <<>> /\ listing' = NoListing /\ answered' = {}
        /\ UNCHANGED <<modified, crossed>>
    BY DEF UnlinkedAndRelinked, LoggedOutAndRelinked, Relinks
  <1>2. unlinked' \in BOOLEAN /\ (unlinked => unlinked')
    BY DEF UnlinkedAndRelinked, LoggedOutAndRelinked, ChatsInv, ChatShape
  <1>3. \/ unlinked' /\ UNCHANGED <<store, marker>>
        \/ store' = <<>> /\ marker' = [c \in Chats |-> 0]
    BY DEF UnlinkedAndRelinked, LoggedOutAndRelinked, NoMarker
  <1>4. account \in Nat /\ account' \in 1 .. MaxAccounts
    BY <1>1, AccountsAssumption DEF ChatsInv, ChatShape
  <1>5. marker' \in [Chats -> 0 .. account']
    <2>1. CASE marker' = [c \in Chats |-> 0] BY <1>1, <1>4, <2>1
    <2>2. CASE marker' = marker
      <3>1. marker \in [Chats -> 0 .. account] /\ 0 .. account \subseteq 0 .. account'
        BY <1>1, <1>4 DEF ChatsInv, ChatShape
      <3> QED BY <2>2, <3>1
    <2> QED BY <1>3, <2>1, <2>2
  <1>6. ChatShape' BY <1>1, <1>2, <1>3, <1>4, <1>5 DEF ChatsInv, ChatShape
  <1>7. PhoneIsFollowed'
    <2> SUFFICES ASSUME ~unlinked', NEW c \in Chats PROVE Follows(c)'
      BY DEF PhoneIsFollowed
    <2>1. store' = <<>> /\ phone' = <<>> /\ events' = <<>> /\ deletes' = <<>> BY <1>1, <1>3
    <2> QED BY <2>1 DEF Follows, Under, LastOf, Mirrors
  <1>8. SeenAreOwn' BY <1>3 DEF SeenAreOwn
  <1>9. MarkersAreOwn' BY <1>1, <1>2 DEF ChatsInv, MarkersAreOwn
  <1> QED BY <1>6, <1>7, <1>8, <1>9 DEF ChatsInv

\* What a modification carries was seen by the account that asks.
LEMMA MarksOwn ==
  ASSUME ChatsInv, NEW c \in Chats, Marks(c), UNCHANGED <<account, unlinked>>
  PROVE  MarkersAreOwn'
  BY DEF ChatsInv, SeenAreOwn, Marks, MarkersAreOwn

LEMMA ModifyStands ==
  ASSUME ChatsInv, NEW c \in Chats, Modify(c)
  PROVE  ChatsInv'
  <1>1. /\ Marks(c)
        /\ UNCHANGED <<account, unlinked, phone, member, piecemeal, events, store, marker, deletes, crossed,
                       listing, answered>>
    BY DEF Modify, session, world, answers
  <1>2. MarkersAreOwn' BY <1>1, MarksOwn
  <1>3. PhoneIsFollowed' BY <1>1, PhoneStays DEF ChatsInv
  <1>4. SeenAreOwn' BY <1>1 DEF ChatsInv, SeenAreOwn
  <1>5. ChatShape' BY <1>1 DEF ChatsInv, ChatShape, NoListing
  <1> QED BY <1>2, <1>3, <1>4, <1>5 DEF ChatsInv

\* A deletion asked for, carried out, answered, or failed.
LEMMA DeleteStands ==
  ASSUME ChatsInv, NEW c \in Chats,
         Delete(c) \/ Carried(c) \/ Deleted(c) \/ NotDeleted(c)
  PROVE  ChatsInv'
  <1>1. UNCHANGED <<account, unlinked, member, piecemeal, events, marker, listing, answered>>
    BY DEF Delete, Carried, Deleted, NotDeleted, session, world,
           answers
  <1>2. MarkersAreOwn'
    <2>1. CASE Delete(c) BY <1>1, <2>1, MarksOwn DEF Delete
    <2>2. CASE ~Delete(c)
      <3>1. modified' = modified BY <2>2 DEF Carried, Deleted, NotDeleted
      <3> QED BY <1>1, <3>1, MarkersStay DEF ChatsInv
    <2> QED BY <2>1, <2>2
  <1>3. SeenAreOwn' BY <1>1 DEF ChatsInv, SeenAreOwn
  <1>4. PICK d : d = deletes' OBVIOUS
  <1>5. PICK f : f = phone' OBVIOUS
  <1>6. PICK g : g = store' OBVIOUS
  <1>7. \* another chat is as it was
        /\ \A x : x # c => Same(d, deletes, x) /\ Same(f, phone, x) /\ Same(g, store, x)
        /\ DOMAIN f \subseteq DOMAIN phone /\ DOMAIN g \subseteq DOMAIN store
        /\ DOMAIN d \subseteq DOMAIN deletes \cup {c}
        /\ c \in DOMAIN d => d[c] \in {"asked", "done"}
        /\ crossed \subseteq crossed' /\ crossed' \subseteq crossed \cup {c}
        \* this one is asked for, carried out, answered or left
        /\ \/ /\ c \in DOMAIN d /\ d[c] = "asked" /\ f = phone /\ g = store /\ c \notin DOMAIN deletes
              /\ Under(events, c) => c \in crossed'
           \/ c \in DOMAIN d /\ d[c] = "done" /\ c \notin DOMAIN f /\ c \in DOMAIN deletes
           \/ c \notin DOMAIN d /\ c \in DOMAIN deletes /\ deletes[c] = "done" /\ f = phone /\ c \notin DOMAIN g
           \/ c \notin DOMAIN d /\ c \in DOMAIN deletes /\ deletes[c] = "asked" /\ f = phone /\ g = store
    <2>1. CASE Delete(c)
      <3>1. d = With(deletes, c, "asked") /\ c \notin DOMAIN deletes /\ f = phone /\ g = store
            /\ crossed' = (IF Pending(c) THEN crossed \cup {c} ELSE crossed)
        BY <1>4, <1>5, <1>6, <2>1 DEF Delete, world
      <3>2. DOMAIN d = {c} \cup DOMAIN deletes /\ d[c] = "asked"
            /\ \A x \in DOMAIN deletes : x # c => d[x] = deletes[x]
        BY <3>1 DEF With
      <3> QED BY <3>1, <3>2 DEF Same, Under, Pending
    <2>2. CASE Carried(c)
      <3>1. d = With(deletes, c, "done") /\ c \in DOMAIN deletes /\ f = Without(phone, c)
            /\ g = store /\ crossed' = crossed
        BY <1>4, <1>5, <1>6, <2>2 DEF Carried
      <3>2. DOMAIN d = {c} \cup DOMAIN deletes /\ d[c] = "done"
            /\ \A x \in DOMAIN deletes : x # c => d[x] = deletes[x]
        BY <3>1 DEF With
      <3>3. DOMAIN f = DOMAIN phone \ {c} /\ \A x \in DOMAIN f : f[x] = phone[x]
        BY <3>1 DEF Without
      <3> QED BY <3>1, <3>2, <3>3 DEF Same
    <2>3. CASE Deleted(c)
      <3>1. d = Without(deletes, c) /\ c \in DOMAIN deletes /\ deletes[c] = "done" /\ f = phone
            /\ g = Without(store, c) /\ crossed' = crossed
        BY <1>4, <1>5, <1>6, <2>3 DEF Deleted, world
      <3>2. DOMAIN d = DOMAIN deletes \ {c} /\ \A x \in DOMAIN d : d[x] = deletes[x]
        BY <3>1 DEF Without
      <3>3. DOMAIN g = DOMAIN store \ {c} /\ \A x \in DOMAIN g : g[x] = store[x]
        BY <3>1 DEF Without
      <3> QED BY <3>1, <3>2, <3>3 DEF Same
    <2>4. CASE NotDeleted(c)
      <3>1. d = Without(deletes, c) /\ c \in DOMAIN deletes /\ deletes[c] = "asked" /\ f = phone
            /\ g = store /\ crossed' = crossed
        BY <1>4, <1>5, <1>6, <2>4 DEF NotDeleted, world
      <3>2. DOMAIN d = DOMAIN deletes \ {c} /\ \A x \in DOMAIN d : d[x] = deletes[x]
        BY <3>1 DEF Without
      <3> QED BY <3>1, <3>2 DEF Same
    <2> QED BY <2>1, <2>2, <2>3, <2>4
  <1>8. ASSUME ~unlinked, NEW x \in Chats \ crossed' PROVE Follows(x)'
    <2>1. Follows(x) BY <1>7, <1>8 DEF ChatsInv, PhoneIsFollowed
    <2>2. CASE x # c
      <3>1. Same(d, deletes, x) /\ Same(f, phone, x) /\ Same(g, store, x) BY <1>7, <2>2
      <3>2. \A i \in DOMAIN events : LastOf(events, i, x) => Says(events[i], piecemeal, f)
        BY <2>1, <3>1 DEF Follows, LastOf, Says, Tells, Same
      <3>3. ~Under(events, x) =>
              IF x \in DOMAIN d /\ d[x] = "done" THEN x \notin DOMAIN f
              ELSE Mirrors(g, piecemeal, f, x)
        BY <2>1, <3>1 DEF Follows, Mirrors, Tells, Same
      <3>4. x \in DOMAIN d => ~Under(events, x) BY <2>1, <3>1 DEF Follows, Same
      <3> QED BY <1>1, <1>4, <1>5, <1>6, <3>2, <3>3, <3>4 DEF Follows
    <2>3. CASE x = c
      <3>1. c \in DOMAIN deletes => ~Under(events, c) BY <2>1, <2>3 DEF Follows
      <3>2. CASE ~Under(events, c)
        <4>1. \A i \in DOMAIN events : ~LastOf(events, i, c) BY <3>2 DEF Under, LastOf
        <4>2. IF c \in DOMAIN deletes /\ deletes[c] = "done" THEN c \notin DOMAIN phone
              ELSE Mirrors(store, piecemeal, phone, c)
          BY <2>1, <2>3, <3>2 DEF Follows
        <4>3. IF c \in DOMAIN d /\ d[c] = "done" THEN c \notin DOMAIN f
              ELSE Mirrors(g, piecemeal, f, c)
          <5>1. CASE /\ c \in DOMAIN d /\ d[c] = "asked" /\ f = phone /\ g = store /\ c \notin DOMAIN deletes
            BY <4>2, <5>1
          <5>2. CASE c \in DOMAIN d /\ d[c] = "done" /\ c \notin DOMAIN f /\ c \in DOMAIN deletes BY <5>2
          <5>3. CASE /\ c \notin DOMAIN d /\ c \in DOMAIN deletes /\ deletes[c] = "done" /\ f = phone
                     /\ c \notin DOMAIN g
            BY <4>2, <5>3 DEF Mirrors
          <5>4. CASE c \notin DOMAIN d /\ c \in DOMAIN deletes /\ deletes[c] = "asked" /\ f = phone /\ g = store
            BY <4>2, <5>4
          <5> QED BY <1>7, <5>1, <5>2, <5>3, <5>4
        <4> QED BY <1>1, <1>4, <1>5, <1>6, <2>3, <3>2, <4>1, <4>3 DEF Follows
      <3>3. CASE Under(events, c) BY <1>7, <1>8, <2>3, <3>1, <3>3
      <3> QED BY <3>2, <3>3
    <2> QED BY <2>2, <2>3
  <1>9. PhoneIsFollowed' BY <1>1, <1>8 DEF ChatsInv, PhoneIsFollowed
  <1>10. ChatShape
    BY DEF ChatsInv
  <1>11. DOMAIN phone' \subseteq Chats /\ DOMAIN store' \subseteq Chats
         /\ DOMAIN deletes' \subseteq Chats
    BY <1>4, <1>5, <1>6, <1>7, <1>10 DEF ChatShape
  <1>12. \A x \in DOMAIN d : d[x] \in {"asked", "done"} BY <1>7, <1>10 DEF ChatShape, Same
  <1>13. \A x \in DOMAIN f : f[x] \in Int
    <2>1. c \notin DOMAIN f \/ f = phone
      BY <1>4, <1>5, <1>6, <1>7
    <2> QED BY <1>7, <1>10, <2>1 DEF ChatShape, Same
  <1>14. ChatShape' BY <1>1, <1>4, <1>5, <1>10, <1>11, <1>12, <1>13 DEF ChatShape, NoListing
  <1> QED BY <1>2, <1>3, <1>9, <1>14 DEF ChatsInv

\* Groups joined and left, getChats and getChat leave the phone, the store and what is
\* asked of chats alone.
LEMMA ListStands ==
  ASSUME ChatsInv,
         \/ \E g \in Groups : Membership(g)
         \/ getChats \/ GroupsFetched \/ GroupsNotFetched
         \/ \E c \in Chats, exists \in BOOLEAN : getChat(c, exists)
  PROVE  ChatsInv'
  <1>1. UNCHANGED <<account, unlinked, phone, piecemeal, events, store, marker, modified, deletes, crossed>>
    BY DEF Membership, getChats, GroupsFetched, GroupsNotFetched, getChat,
           session, world, asks, answers
  <1>2. PhoneIsFollowed' BY <1>1, PhoneStays DEF ChatsInv
  <1>3. SeenAreOwn' /\ MarkersAreOwn' BY <1>1, MarkersStay DEF ChatsInv
  <1>4. ChatShape BY DEF ChatsInv
  <1>5. /\ member' \subseteq Groups /\ (listing' # NoListing => listing'.chats \subseteq Chats)
        /\ {o.chat : o \in answered'} \subseteq Chats
    <2>1. CASE \E g \in Groups : Membership(g)
      BY <1>4, <2>1 DEF Membership, answers, ChatShape
    <2>2. CASE getChats
      BY <1>4, <2>2 DEF getChats, world, ChatShape
    <2>3. CASE GroupsFetched \/ GroupsNotFetched
      <3>1. PICK groups : groups \subseteq Groups /\ answered' = Listed(groups)
        BY <1>4, <2>3 DEF GroupsFetched, GroupsNotFetched, ChatShape
      <3>2. listing # NoListing /\ listing' = NoListing /\ member' = member
        BY <2>3 DEF GroupsFetched, GroupsNotFetched, world
      <3>3. \A o \in Listed(groups) : o.chat \in listing.chats \cup groups
        BY DEF Listed, Known, Chat
      <3> QED BY <1>4, <3>1, <3>2, <3>3 DEF ChatShape, Chats
    <2>4. CASE \E c \in Chats, exists \in BOOLEAN : getChat(c, exists)
      <3>1. PICK c \in Chats : \E exists \in BOOLEAN : getChat(c, exists) BY <2>4
      <3>2. answered' \subseteq answered \cup {Chat(c, c \in Groups)} /\ UNCHANGED <<member, listing>>
        BY <3>1 DEF getChat, world
      <3>3. Chat(c, c \in Groups).chat = c BY DEF Chat
      <3> QED BY <1>4, <3>2, <3>3 DEF ChatShape, NoListing
    <2> QED BY <2>1, <2>2, <2>3, <2>4
  <1>6. ChatShape' BY <1>1, <1>4, <1>5 DEF ChatShape, NoListing
  <1> QED BY <1>2, <1>3, <1>6 DEF ChatsInv

LEMMA ChatsStep ==
  ASSUME ChatsInv, [ChatsNext]_chatVars
  PROVE  ChatsInv'
  <1>1. CASE UNCHANGED chatVars
    <2>1. UNCHANGED <<account, unlinked, phone, member, piecemeal, events, store, marker, modified, deletes,
                      crossed, listing, answered>>
      BY <1>1 DEF chatVars
    <2>2. PhoneIsFollowed' /\ SeenAreOwn' /\ MarkersAreOwn'
      BY <2>1, PhoneStays, MarkersStay DEF ChatsInv
    <2>3. ChatShape' BY <2>1 DEF ChatsInv, ChatShape, NoListing
    <2> QED BY <2>2, <2>3 DEF ChatsInv
  <1>2. CASE ChatsNext
    <2>1. CASE \E c \in Chats : \E n \in 1 .. MaxMessages : Message(c, n) BY <2>1, PhoneStands
    <2>2. CASE \E c \in Chats : \E unread \in 0 .. MaxMessages : Synced(c, unread)
      BY <2>2, PhoneStands
    <2>3. CASE \E c \in Chats : \E unread \in {0, -1} : Turns(c, unread) BY <2>3, PhoneStands
    <2>4. CASE \E c \in Chats : Vanishes(c) \/ Modify(c) BY <2>4, PhoneStands, ModifyStands
    <2>5. CASE \E c \in Chats : Delete(c) \/ Carried(c) \/ Deleted(c) \/ NotDeleted(c)
      BY <2>5, DeleteStands
    <2>6. CASE Reported \/ UnlinkedAndRelinked \/ LoggedOutAndRelinked
      BY <2>6, ReportedStands, RelinkStands
    <2>7. CASE \/ \E c \in Chats : \E exists \in BOOLEAN : getChat(c, exists)
               \/ \E g \in Groups : Membership(g)
               \/ getChats \/ GroupsFetched \/ GroupsNotFetched
      BY <2>7, ListStands
    <2> QED BY <1>2, <2>1, <2>2, <2>3, <2>4, <2>5, <2>6, <2>7 DEF ChatsNext
  <1> QED BY <1>1, <1>2

LEMMA ChatsBegin ==
  ASSUME ChatsInit PROVE ChatsInv
  <1>1. /\ account = 1 /\ unlinked = FALSE /\ phone = <<>> /\ member \in SUBSET Groups
        /\ events = <<>> /\ store = <<>> /\ marker = [c \in Chats |-> 0] /\ modified = {}
        /\ deletes = <<>> /\ crossed = {} /\ listing = NoListing /\ answered = {}
    BY DEF ChatsInit, NoMarker
  <1>2. ChatShape
    <2>1. account \in 1 .. MaxAccounts /\ marker \in [Chats -> 0 .. account]
      BY <1>1, AccountsAssumption
    <2>2. events \in Seq(ChatReports) /\ member \subseteq Groups BY <1>1
    <2>3. DOMAIN phone = {} /\ DOMAIN store = {} /\ DOMAIN deletes = {} BY <1>1
    <2> QED BY <1>1, <2>1, <2>2, <2>3 DEF ChatShape
  <1>3. PhoneIsFollowed BY <1>1 DEF PhoneIsFollowed, Follows, Under, LastOf, Mirrors
  <1>4. SeenAreOwn /\ MarkersAreOwn BY <1>1 DEF SeenAreOwn, MarkersAreOwn
  <1> QED BY <1>2, <1>3, <1>4 DEF ChatsInv

THEOREM ChatsInvariance == ChatsSpec => []ChatsInv
  <1>1. ChatsInit => ChatsInv BY ChatsBegin
  <1>2. ChatsInv /\ [ChatsNext]_chatVars => ChatsInv' BY ChatsStep
  <1> QED BY <1>1, <1>2, PTL DEF ChatsSpec

\* With nothing under way the store has the chats the phone has, each with its unread
\* messages or, of those reported one after the other, some; and a modification carries a message of its own account, but for crossed
\* deletions and what the phone's unlinking left behind.
THEOREM StoreFollowsPhone == ChatsSpec => []StoreIsPhones
  <1>1. ASSUME ChatsInv PROVE ChatsTypeOK
    BY <1>1 DEF ChatsInv, ChatShape, ChatsTypeOK
  <1>2. ASSUME ChatsInv PROVE StoreFollows
    <2> SUFFICES ASSUME events = <<>>, deletes = <<>>, ~unlinked
                 PROVE  /\ DOMAIN store \ crossed = DOMAIN phone \ crossed
                        /\ \A o \in answered : (o.chat \in DOMAIN phone \ crossed) =>
                             IF o.chat \in piecemeal THEN unreadCount(o) \in 1 .. Unread(phone, o.chat)
                             ELSE unreadCount(o) = Unread(phone, o.chat)
      BY DEF StoreFollows
    <2>1. \A c \in Chats : ~Under(events, c) /\ c \notin DOMAIN deletes BY DEF Under
    <2>2. \A c \in Chats \ crossed : Mirrors(store, piecemeal, phone, c)
      BY <1>1, <1>2, <2>1 DEF ChatsInv, PhoneIsFollowed, Follows
    <2>3. /\ DOMAIN store \subseteq Chats /\ DOMAIN phone \subseteq Chats
          /\ \A c \in DOMAIN phone : phone[c] \in Int
      BY <1>2 DEF ChatsInv, ChatShape
    <2>4. ASSUME NEW o \in answered, o.chat \in DOMAIN phone \ crossed
          PROVE  IF o.chat \in piecemeal THEN unreadCount(o) \in 1 .. Unread(phone, o.chat)
                 ELSE unreadCount(o) = Unread(phone, o.chat)
      <3>1. PICK c : c = o.chat OBVIOUS
      <3>2. c \in DOMAIN store /\ Tells(store[c], piecemeal, phone, c) /\ phone[c] \in Int
        BY <2>2, <2>3, <2>4, <3>1 DEF Mirrors
      <3> QED BY <2>4, <3>1, <3>2 DEF Tells, unreadCount, Unread
    <2>5. DOMAIN store \ crossed = DOMAIN phone \ crossed BY <2>2, <2>3 DEF Mirrors
    <2> QED BY <2>4, <2>5
  <1>3. ChatsInv => StoreIsPhones BY <1>1, <1>2 DEF ChatsInv, StoreIsPhones
  <1> QED BY <1>3, ChatsInvariance, PTL

\* getChats loses no chat it knew, answers none twice, and gives a community its operations.
THEOREM NothingListedIsLost == ChatsSpec => ListingIsWhole
  <1>1. ASSUME ChatsInv, [ChatsNext]_chatVars,
               listing # NoListing, listing' = NoListing, account' = account
        PROVE  /\ listing.chats \subseteq {o.chat : o \in answered'}
               /\ \A o, p \in answered' : o.chat = p.chat => o = p
               /\ (\E o \in answered' : o.metadata) =>
                    \A g \in member \cap Communities :
                      \E o \in answered' : o.chat = g /\ "community" \in Offers(o)
    <2>1. listing' # listing /\ account \in Nat BY <1>1 DEF ChatsInv, ChatShape
    <2>2. account + 1 # account BY <2>1
    <2>3. GroupsFetched \/ GroupsNotFetched
      <3>1. ~UNCHANGED chatVars BY <2>1 DEF chatVars
      <3>2. ChatsNext BY <1>1, <3>1
      <3>3. ~UnlinkedAndRelinked /\ ~LoggedOutAndRelinked
        BY <1>1, <2>2 DEF UnlinkedAndRelinked, LoggedOutAndRelinked, Relinks
      <3>4. ~getChats BY <1>1 DEF getChats
      <3>5. /\ ~Reported /\ \A g \in Groups : ~Membership(g)
            /\ \A c : /\ \A n : ~Message(c, n) /\ ~Synced(c, n) /\ ~Turns(c, n)
                      /\ \A exists : ~getChat(c, exists)
                      /\ ~Vanishes(c) /\ ~Modify(c)
                      /\ ~Delete(c) /\ ~Carried(c) /\ ~Deleted(c) /\ ~NotDeleted(c)
        BY <2>1 DEF Message, Synced, Turns, Vanishes, Membership, Reported,
             Modify, Delete, Carried, Deleted, NotDeleted, getChat,
             answers
      <3> QED BY <3>2, <3>3, <3>4, <3>5 DEF ChatsNext
    <2>4. PICK groups : answered' = Listed(groups) /\ (groups = member \/ groups = {})
      BY <2>3 DEF GroupsFetched, GroupsNotFetched
    <2>5. PICK known : known = listing.chats OBVIOUS
    <2>6. PICK found : found = answered' OBVIOUS
    <2>7. found = {o \in {[chat |-> c, metadata |-> FALSE] : c \in known} : o.chat \notin groups}
                 \cup {[chat |-> g, metadata |-> TRUE] : g \in groups}
      BY <2>4, <2>5, <2>6 DEF Listed, Known, Chat
    <2>8. ASSUME NEW o \in found
          PROVE  (o.chat \in groups /\ o = [chat |-> o.chat, metadata |-> TRUE])
                 \/ (o.chat \notin groups /\ o = [chat |-> o.chat, metadata |-> FALSE])
      <3>1. CASE o \in {[chat |-> g, metadata |-> TRUE] : g \in groups} BY <3>1
      <3>2. CASE o \in {[chat |-> c, metadata |-> FALSE] : c \in known} /\ o.chat \notin groups
        BY <3>2
      <3> QED BY <2>7, <3>1, <3>2
    <2>9. ASSUME NEW c \in known PROVE \E o \in found : o.chat = c
      <3>1. CASE c \in groups
        <4>1. [chat |-> c, metadata |-> TRUE] \in found BY <2>7, <3>1
        <4> QED BY <4>1
      <3>2. CASE c \notin groups
        <4>1. [chat |-> c, metadata |-> FALSE] \in found BY <2>7, <3>2
        <4> QED BY <4>1
      <3> QED BY <3>1, <3>2
    <2>10. known \subseteq {o.chat : o \in found} BY <2>9
    <2>11. \A o, p \in found : o.chat = p.chat => o = p BY <2>8
    <2>12. ASSUME NEW o \in found, o.metadata, NEW g \in member \cap Communities
           PROVE  \E q \in found : q.chat = g /\ "community" \in Offers(q)
      <3>1. o.chat \in groups BY <2>8, <2>12
      <3>2. groups = member BY <2>4, <3>1
      <3>3. PICK q : q = [chat |-> g, metadata |-> TRUE] OBVIOUS
      <3>4. q \in found /\ q.chat = g /\ q.metadata BY <2>7, <2>12, <3>2, <3>3
      <3>5. "community" \in Offers(q) BY <2>12, <3>4 DEF Offers
      <3> QED BY <3>4, <3>5
    <2> QED BY <2>5, <2>6, <2>10, <2>11, <2>12
  <1>2. ChatsInv /\ [ChatsNext]_chatVars =>
          [listing # NoListing /\ listing' = NoListing /\ account' = account =>
             /\ listing.chats \subseteq {o.chat : o \in answered'}
             /\ \A o, p \in answered' : o.chat = p.chat => o = p
             /\ (\E o \in answered' : o.metadata) =>
                  \A g \in member \cap Communities :
                    \E o \in answered' : o.chat = g /\ "community" \in Offers(o)]_chatVars
    BY <1>1
  <1> QED BY <1>2, ChatsInvariance, PTL DEF ChatsSpec, ListingIsWhole
=============================================================================
