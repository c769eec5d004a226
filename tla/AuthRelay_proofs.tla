-------------------------- MODULE AuthRelay_proofs --------------------------
(* Proofs about AuthRelay, for every set of devices and challenges and any *)
(* number of parts.                                                        *)
EXTENDS AuthRelay, TLAPS

\* The next transfer only starts when the last one has ended.
OneTransfer == ready_to_send => wire = << >>

\* A request under way is the one the relay's state calls for, unless the
\* console has made it start over since.
AskedInState ==
  \A i \in Asked :
    \/ state = "SENDING_RESET"
    \/ InFlight[i].what = "nonce" /\ state = "SENDING_NONCE"
    \/ InFlight[i].what = "state" /\ state = "WAITING_FOR_SIG"
    \/ InFlight[i].what = "signature" /\ state = "RECEIVING_SIG"

ResetFirst == state = "SENDING_RESET" => nonce_part = 0

Inv == /\ TypeOK /\ OneTransfer /\ OneRequestAtATime /\ AskedInState
       /\ ResetFirst /\ NoncePartInRange
-----------------------------------------------------------------------------
(* How far an undisturbed exchange has got.                                *)

Challenge == console.challenge
SignedPart(k) == [of |-> Challenge, part |-> k]

\* What is under way is for the device that signs, and of this exchange.
AskedOfSigner ==
  \A i \in Asked :
    /\ InFlight[i].to = auth_dev
    /\ state = "SENDING_RESET" => InFlight[i].what = "reset"
    /\ InFlight[i].what = "nonce" => /\ InFlight[i].part = nonce_part - 1
                                     /\ InFlight[i].payload = Challenge

\* The console is still sending the nonce, or there was no exchange yet.
Asking ==
  /\ state = "IDLE" /\ ~signature_ready
  /\ console.phase = "sending" =>
       \A k \in NonceIndex : k < console.part => nonce[k] = Challenge

\* The relay works on the nonce.
SignerHas(k) == signer[auth_dev].nonce[k] = Challenge
SentOn == IF busy THEN nonce_part - 1 ELSE nonce_part
Working ==
  /\ \A k \in NonceIndex : nonce[k] = Challenge
  /\ ~signature_ready
  /\ state # "SENDING_RESET" => auth_dev # None
  /\ state = "SENDING_NONCE" =>
       \A k \in NonceIndex : k < SentOn => SignerHas(k)
  /\ state \in {"WAITING_FOR_SIG", "RECEIVING_SIG"} => \A k \in NonceIndex : SignerHas(k)
  /\ state \in {"SENDING_NONCE", "WAITING_FOR_SIG"} => signer[auth_dev].next = 0
  /\ state = "RECEIVING_SIG" =>
       /\ signer[auth_dev].signed
       /\ signer[auth_dev].next = signature_part
       /\ \A k \in SigIndex : k < signature_part => signature[k] = SignedPart(k)

\* The signature is there.
Answered ==
  /\ state = "IDLE" /\ signature_ready
  /\ \A k \in SigIndex : signature[k] = SignedPart(k)
  /\ console.phase = "waiting" => signature_part = 0
  /\ console.phase = "reading" =>
       /\ Len(console.got) < SigParts => signature_part = Len(console.got)
       /\ \A k \in 1 .. Len(console.got) : console.got[k] = SignedPart(k - 1)

Exchange ==
  ~disturbed =>
    /\ AskedOfSigner
    /\ console.phase # "reading" => console.got = << >>
    /\ console.phase \in {"idle", "sending"} => Asking
    /\ console.phase = "waiting" =>
         IF state = "IDLE" THEN Answered ELSE Working
    /\ console.phase = "reading" => Answered
-----------------------------------------------------------------------------
(* What the steps do to the requests under way.                            *)

LEMMA LinkType ==
  ASSUME TypeOK
  PROVE  wire \in Seq(Request) /\ queue \in Seq(Request)
<1>1. wire = << >> \/ \E r \in Request : wire = << r >>
  BY DEF TypeOK
<1>2. CASE wire = << >>
  BY <1>2 DEF TypeOK
<1>3. CASE \E r \in Request : wire = << r >>
  BY <1>3 DEF TypeOK
<1> QED
  BY <1>1, <1>2, <1>3

LEMMA InFlightType ==
  ASSUME TypeOK
  PROVE  /\ InFlight \in Seq(Request)
         /\ Len(InFlight) \in Nat /\ Asked \subseteq 1 .. Len(InFlight)
         /\ \A i \in Asked : InFlight[i] \in Request
<1>1. wire \in Seq(Request) /\ queue \in Seq(Request)
  BY LinkType
<1>2. InFlight \in Seq(Request)
  BY <1>1 DEF InFlight
<1> QED
  BY <1>2 DEF Asked

LEMMA Unmoved ==
  ASSUME InFlight' = InFlight
  PROVE  Asked' = Asked
BY DEF Asked

LEMMA Sent ==
  ASSUME TypeOK, OneTransfer, SendOutReport
  PROVE  InFlight' = InFlight
<1>1. wire = << >> /\ wire' = << Head(queue) >> /\ queue' = Tail(queue) /\ queue # << >>
  BY DEF OneTransfer, SendOutReport
<1>2. queue \in Seq(Request)
  BY DEF TypeOK
<1>3. << Head(queue) >> \o Tail(queue) = queue
  BY <1>1, <1>2
<1>4. << >> \o queue = queue
  BY <1>2
<1> QED
  BY <1>1, <1>3, <1>4 DEF InFlight

LEMMA Appended ==
  ASSUME TypeOK, NEW r \in Request, wire' = wire, queue' = Append(queue, r)
  PROVE  \A i \in Asked' :
           \/ i \in Asked /\ InFlight'[i] = InFlight[i]
           \/ r.what # "output" /\ i = Len(InFlight) + 1 /\ InFlight'[i] = r
<1>1. wire \in Seq(Request) /\ queue \in Seq(Request)
  BY LinkType
<1>2. InFlight' = Append(InFlight, r)
  <2>1. wire \o Append(queue, r) = Append(wire \o queue, r)
    BY <1>1
  <2> QED
    BY <2>1 DEF InFlight
<1>3. InFlight \in Seq(Request)
  BY InFlightType
<1> QED
  BY <1>2, <1>3 DEF Asked

LEMMA Ended ==
  ASSUME TypeOK, wire # << >>, wire' = << >>, queue' = queue
  PROVE  /\ Head(wire) \in Request
         /\ InFlight[1] = Head(wire)
         /\ Head(wire).what # "output" => 1 \in Asked
         /\ \A i \in Asked' : i \in Nat \ {0} /\ i + 1 \in Asked /\ InFlight'[i] = InFlight[i + 1]
<1>1. PICK r \in Request : wire = << r >>
  BY DEF TypeOK
<1>2. queue \in Seq(Request)
  BY DEF TypeOK
<1>3. InFlight = << r >> \o queue /\ InFlight' = queue
  BY <1>1, <1>2 DEF InFlight
<1>4. /\ Len(InFlight) = 1 + Len(queue) /\ InFlight[1] = r
      /\ \A i \in 1 .. Len(queue) : InFlight[i + 1] = queue[i]
  BY <1>2, <1>3
<1>5. Head(wire) = r
  BY <1>1
<1> QED
  BY <1>2, <1>3, <1>4, <1>5 DEF Asked
-----------------------------------------------------------------------------
(* Types, and one request at a time.                                       *)

LEMMA Types ==
  /\ 0 \in NonceIndex /\ NonceParts - 1 \in NonceIndex /\ 0 \in SigIndex
  /\ FreshSigner \in Signer /\ Unset \in Signature
  /\ Signers \subseteq Devices /\ None \notin Devices /\ None \notin Challenges
<1>1. 0 \in NonceIndex /\ NonceParts - 1 \in NonceIndex /\ 0 \in SigIndex
  BY PartsAssumption DEF NonceIndex, SigIndex
<1>2. FreshSigner \in Signer
  BY <1>1 DEF FreshSigner, Signer, NoNonce
<1>3. Unset \in Signature
  BY <1>1 DEF Unset, Signature
<1> QED
  BY <1>1, <1>2, <1>3, DevicesAssumption, ChallengesAssumption

LEMMA NextPartType ==
  ASSUME TypeOK PROVE NextSignaturePart \in SigIndex
BY PartsAssumption DEF TypeOK, NextSignaturePart, SigIndex

LEMMA Initially == Init => Inv
<1> SUFFICES ASSUME Init PROVE Inv
  OBVIOUS
<1>1. TypeOK
  <2>1. NoNonce \in [NonceIndex -> Challenges \cup {None}]
    BY DEF NoNonce
  <2>2. console \in Console /\ Len(console.got) <= SigParts
    BY Types, PartsAssumption DEF Init, Console
  <2>3. signature \in [SigIndex -> Signature] /\ signer \in [Devices -> Signer]
    BY Types DEF Init
  <2>4. queue \in Seq(Request) /\ Len(queue) <= Capacity
    BY PartsAssumption DEF Init
  <2> QED
    BY <2>1, <2>2, <2>3, <2>4, Types, PartsAssumption DEF Init, TypeOK, States
<1>2. InFlight = << >> /\ Asked = {}
  BY DEF Init, InFlight, Asked
<1> QED
  BY <1>1, <1>2 DEF Init, Inv, OneTransfer, OneRequestAtATime, AskedInState,
     ResetFirst, NoncePartInRange

\* The requests are what they were and so is all that Inv says of them.
LEMMA LinkUntouched ==
  ASSUME Inv, InFlight' = InFlight, busy' = busy, state' = state
  PROVE  OneRequestAtATime' /\ AskedInState'
BY Unmoved DEF Inv, OneRequestAtATime, AskedInState

LEMMA ConsoleSteps ==
  ASSUME Inv,
         \/ \E c \in Challenges : StartExchange(c)
         \/ SendPart \/ SeeReady \/ ReadPart
  PROVE  Inv'
<1>1. InFlight' = InFlight /\ wire' = wire /\ ready_to_send' = ready_to_send /\ busy' = busy
  BY DEF StartExchange, SendPart, SeeReady, ReadPart, InFlight, link, relay
<1>2. OneTransfer' /\ OneRequestAtATime'
  BY <1>1, Unmoved DEF Inv, OneTransfer, OneRequestAtATime
<1>3. CASE \E c \in Challenges : StartExchange(c)
  <2>1. TypeOK'
    <3>1. PICK c \in Challenges : StartExchange(c)
      BY <1>3
    <3>2. console' \in Console /\ Len(console'.got) <= SigParts
      BY <3>1, Types, PartsAssumption DEF StartExchange, Console
    <3>3. disturbed' \in BOOLEAN /\ signature_ready' \in BOOLEAN
      BY <3>1 DEF StartExchange
    <3> QED
      BY <3>1, <3>2, <3>3 DEF Inv, TypeOK, StartExchange, link
  <2> QED
    BY <1>1, <1>2, <1>3, <2>1, LinkUntouched
       DEF Inv, StartExchange, ResetFirst, NoncePartInRange
<1>4. CASE SendPart
  <2>1. TypeOK'
    <3>1. console' \in Console /\ console'.got = console.got
      <4>1. console \in Console /\ console.part \in 0 .. NonceParts - 1
        BY DEF Inv, TypeOK, Console, NonceIndex
      <4>2. CASE console.part = NonceParts - 1
        BY <1>4, <4>1, <4>2 DEF SendPart, Console
      <4>3. CASE console.part # NonceParts - 1
        <5>1. console.part + 1 \in NonceIndex
          BY <4>1, <4>3, PartsAssumption DEF NonceIndex
        <5> QED
          BY <1>4, <4>1, <4>3, <5>1 DEF SendPart, Console
      <4> QED
        BY <4>2, <4>3
    <3>2. /\ nonce' \in [NonceIndex -> Challenges \cup {None}]
          /\ nonce_part' \in 0 .. NonceParts /\ state' \in States
      BY <1>4, PartsAssumption
         DEF Inv, TypeOK, SendPart, ReceiveNonce, Console, States
    <3> QED
      BY <1>4, <3>1, <3>2 DEF Inv, TypeOK, SendPart, link
  <2>2. AskedInState'
    BY <1>1, <1>4, Unmoved DEF Inv, AskedInState, SendPart, ReceiveNonce
  <2>3. ResetFirst' /\ NoncePartInRange'
    BY <1>1, <1>4 DEF Inv, ResetFirst, NoncePartInRange, SendPart, ReceiveNonce
  <2> QED
    BY <1>2, <2>1, <2>2, <2>3 DEF Inv
<1>5. CASE SeeReady
  <2>1. TypeOK'
    BY <1>5 DEF Inv, TypeOK, SeeReady, Console, relay, link
  <2> QED
    BY <1>1, <1>2, <1>5, <2>1, LinkUntouched
       DEF Inv, SeeReady, ResetFirst, NoncePartInRange, relay
<1>6. CASE ReadPart
  <2>1. TypeOK'
    <3>1. signature[signature_part] \in Signature
      BY DEF Inv, TypeOK
    <3>2. console' \in Console /\ Len(console'.got) <= SigParts
      <4>1. console.got \in Seq(Signature) /\ Len(console.got) \in Nat
        BY DEF Inv, TypeOK, Console
      <4>2. Append(console.got, signature[signature_part]) \in Seq(Signature)
        BY <3>1, <4>1
      <4>3. Len(Append(console.got, signature[signature_part])) = Len(console.got) + 1
        BY <3>1, <4>1
      <4>4. console' \in Console
            /\ console'.got = Append(console.got, signature[signature_part])
        BY <1>6, <4>2 DEF Inv, TypeOK, ReadPart, Console
      <4> QED
        BY <1>6, <4>1, <4>3, <4>4, PartsAssumption DEF ReadPart
    <3>3. signature_part' \in SigIndex
      BY <1>6, NextPartType DEF Inv, ReadPart
    <3> QED
      BY <1>6, <3>2, <3>3 DEF Inv, TypeOK, ReadPart, link
  <2> QED
    BY <1>1, <1>2, <1>6, <2>1, LinkUntouched
       DEF Inv, ReadPart, ResetFirst, NoncePartInRange
<1> QED
  BY <1>3, <1>4, <1>5, <1>6

\* What one request of the main loop does.
LEMMA OneRequestIsMade ==
  ASSUME Inv, MainLoopTask
  PROVE  \E r \in Request :
           /\ r.to = auth_dev
           /\ \/ queue' = Append(queue, r) /\ Len(queue) # Capacity /\ failed' = failed
              \/ queue' = queue /\ failed' = TRUE
           /\ \/ r.what = "reset" /\ state = "SENDING_RESET" /\ nonce_part' = nonce_part
              \/ /\ r.what = "nonce" /\ state = "SENDING_NONCE"
                 /\ nonce_part < NonceParts /\ nonce_part' = nonce_part + 1
                 /\ r.part = nonce_part /\ r.payload = nonce[nonce_part]
              \/ r.what = "state" /\ state = "WAITING_FOR_SIG" /\ nonce_part' = nonce_part
              \/ r.what = "signature" /\ state = "RECEIVING_SIG" /\ nonce_part' = nonce_part
<1>1. auth_dev \in Devices
  BY Types DEF Inv, TypeOK, MainLoopTask
<1>2. Ask("reset") \in Request /\ Ask("state") \in Request /\ Ask("signature") \in Request
  BY <1>1, Types DEF Ask, Request
<1>3. CASE SendNonce
  <2> DEFINE r == [to |-> auth_dev, what |-> "nonce", part |-> nonce_part,
                   payload |-> nonce[nonce_part]]
  <2>1. nonce_part \in NonceIndex /\ nonce_part < NonceParts
    BY <1>3, PartsAssumption
       DEF Inv, TypeOK, NoncePartInRange, SendNonce, MainLoopTask, NonceIndex
  <2>2. r \in Request
    BY <1>1, <2>1 DEF Request, Inv, TypeOK
  <2> QED
    BY <1>3, <2>1, <2>2 DEF SendNonce, Put
<1>4. CASE SendReset
  BY <1>2, <1>4 DEF SendReset, Put, Ask
<1>5. CASE PollState
  BY <1>2, <1>5 DEF PollState, Put, Ask
<1>6. CASE FetchSignature
  BY <1>2, <1>6 DEF FetchSignature, Put, Ask
<1> QED
  BY <1>3, <1>4, <1>5, <1>6 DEF MainLoopTask

LEMMA RequestSteps ==
  ASSUME Inv, MainLoopTask
  PROVE  Inv'
<1>1. PICK r \in Request :
           /\ r.to = auth_dev
           /\ \/ queue' = Append(queue, r) /\ Len(queue) # Capacity /\ failed' = failed
              \/ queue' = queue /\ failed' = TRUE
           /\ \/ r.what = "reset" /\ state = "SENDING_RESET" /\ nonce_part' = nonce_part
              \/ /\ r.what = "nonce" /\ state = "SENDING_NONCE"
                 /\ nonce_part < NonceParts /\ nonce_part' = nonce_part + 1
              \/ r.what = "state" /\ state = "WAITING_FOR_SIG" /\ nonce_part' = nonce_part
              \/ r.what = "signature" /\ state = "RECEIVING_SIG" /\ nonce_part' = nonce_part
  BY OneRequestIsMade
<1>2. /\ busy = FALSE /\ busy' = TRUE
      /\ UNCHANGED <<auth_dev, state, nonce, signature, signature_part,
                     signature_ready, ready_to_send, wire, attached, signer,
                     console, disturbed>>
  <2>1. busy' = TRUE
    BY DEF MainLoopTask, SendReset, SendNonce, PollState, FetchSignature
  <2> QED
    BY <2>1 DEF MainLoopTask, Inv, TypeOK
<1>3. Asked = {}
  BY <1>2 DEF Inv, OneRequestAtATime
<1>4. TypeOK'
  <2>1. queue' \in Seq(Request) /\ Len(queue') <= Capacity
    <3>1. queue \in Seq(Request) /\ Len(queue) <= Capacity /\ Len(queue) \in Nat
      BY DEF Inv, TypeOK
    <3>2. CASE queue' = queue
      BY <3>1, <3>2
    <3>3. CASE queue' = Append(queue, r) /\ Len(queue) # Capacity
      <4>1. Append(queue, r) \in Seq(Request) /\ Len(Append(queue, r)) = Len(queue) + 1
        BY <3>1
      <4> QED
        BY <3>1, <3>3, <4>1, PartsAssumption
    <3> QED
      BY <1>1, <3>2, <3>3
  <2>2. nonce_part' \in 0 .. NonceParts
    BY <1>1, PartsAssumption DEF Inv, TypeOK
  <2>3. failed' \in BOOLEAN /\ busy' \in BOOLEAN
    BY <1>1, <1>2 DEF Inv, TypeOK
  <2>4. UNCHANGED <<auth_dev, state, nonce, signature, signature_part,
                    signature_ready, ready_to_send, wire, attached, signer,
                    console, disturbed>>
    BY <1>2
  <2> QED
    BY <2>1, <2>2, <2>3, <2>4 DEF Inv, TypeOK
<1>5. \A i \in Asked' : i = Len(InFlight) + 1 /\ InFlight'[i] = r
  <2>1. CASE queue' = queue
    BY <1>2, <1>3, <2>1, Unmoved DEF InFlight
  <2>2. CASE queue' = Append(queue, r)
    BY <1>2, <1>3, <2>2, Appended DEF Inv
  <2> QED
    BY <1>1, <2>1, <2>2
<1>6. OneRequestAtATime' /\ AskedInState'
  BY <1>1, <1>2, <1>5 DEF OneRequestAtATime, AskedInState
<1>7. OneTransfer' /\ ResetFirst' /\ NoncePartInRange'
  BY <1>1, <1>2 DEF Inv, OneTransfer, ResetFirst, NoncePartInRange
<1> QED
  BY <1>4, <1>6, <1>7 DEF Inv

LEMMA QueueSteps ==
  ASSUME Inv, SendOutReport \/ \E d \in Devices : QueueOutput(d)
  PROVE  Inv'
<1>1. UNCHANGED <<relay, world>>
  BY DEF SendOutReport, QueueOutput
<1>2. CASE SendOutReport
  <2>1. InFlight' = InFlight
    BY <1>2, Sent DEF Inv
  <2>2. /\ Head(queue) \in Request /\ Tail(queue) \in Seq(Request)
        /\ Len(Tail(queue)) <= Capacity
    <3>1. queue \in Seq(Request) /\ queue # << >> /\ Len(queue) <= Capacity
      BY <1>2 DEF Inv, TypeOK, SendOutReport
    <3>2. Len(queue) \in Nat /\ Len(Tail(queue)) = Len(queue) - 1
      BY <3>1
    <3> QED
      BY <3>1, <3>2, PartsAssumption
  <2>3. TypeOK'
    BY <1>1, <1>2, <2>2 DEF Inv, TypeOK, SendOutReport, relay, world
  <2> QED
    BY <1>1, <1>2, <2>1, <2>3, LinkUntouched
       DEF Inv, SendOutReport, OneTransfer, ResetFirst, NoncePartInRange, relay
<1>3. CASE \E d \in Devices : QueueOutput(d)
  <2>1. PICK d \in Devices : QueueOutput(d)
    BY <1>3
  <2> DEFINE r == [to |-> d, what |-> "output", part |-> 0, payload |-> None]
  <2>2. r \in Request
    BY Types DEF Request
  <2>3. queue' = Append(queue, r) /\ wire' = wire /\ ready_to_send' = ready_to_send
    BY <2>1 DEF QueueOutput
  <2>4. TypeOK'
    <3>1. Append(queue, r) \in Seq(Request) /\ Len(Append(queue, r)) <= Capacity
      BY <2>1, <2>2, PartsAssumption DEF Inv, TypeOK, QueueOutput
    <3> QED
      BY <1>1, <2>3, <3>1 DEF Inv, TypeOK, relay, world
  <2>5. \A i \in Asked' : i \in Asked /\ InFlight'[i] = InFlight[i]
    BY <2>2, <2>3, Appended DEF Inv
  <2>6. OneRequestAtATime' /\ AskedInState'
    BY <1>1, <2>5 DEF Inv, OneRequestAtATime, AskedInState, relay
  <2> QED
    BY <1>1, <2>3, <2>4, <2>6
       DEF Inv, OneTransfer, ResetFirst, NoncePartInRange, relay
<1> QED
  BY <1>2, <1>3

LEMMA AnswerSteps ==
  ASSUME Inv, Complete
  PROVE  Inv'
<1>1. /\ wire # << >> /\ wire' = << >> /\ ready_to_send' = TRUE
      /\ UNCHANGED <<auth_dev, nonce, nonce_part, queue, attached, console,
                     disturbed, failed>>
  BY DEF Complete
<1> DEFINE r == Head(wire)
<1>2. /\ r \in Request /\ InFlight[1] = r
      /\ r.what # "output" => 1 \in Asked
      /\ \A i \in Asked' : i \in Nat \ {0} /\ i + 1 \in Asked /\ InFlight'[i] = InFlight[i + 1]
  BY <1>1, Ended DEF Inv
<1>3. /\ r.to \in Devices /\ r.part \in NonceIndex
      /\ r.payload \in Challenges \cup {None}
      /\ r.what \in {"reset", "nonce", "state", "signature", "output"}
  BY <1>2 DEF Request
<1>4. r.what # "output" => Asked' = {}
  <2> SUFFICES ASSUME r.what # "output", NEW i \in Asked' PROVE FALSE
    OBVIOUS
  <2>1. 1 \in Asked /\ i + 1 \in Asked /\ i \in Nat \ {0}
    BY <1>2
  <2> QED
    BY <2>1 DEF Inv, OneRequestAtATime
<1>5. busy' = (busy /\ (r.what = "output" \/ r.to # auth_dev))
  BY DEF Complete
<1>6. CASE r.what = "output"
  <2>1. OutputDone
    BY <1>6 DEF Complete
  <2>2. TypeOK'
    BY <1>1, <1>5, <2>1 DEF Inv, TypeOK, OutputDone
  <2>3. busy' = busy /\ state' = state
    BY <1>5, <1>6, <2>1 DEF Inv, TypeOK, OutputDone
  <2>4. OneRequestAtATime'
    <3>1. \A i, j \in Asked' : i = j
      BY <1>2 DEF Inv, OneRequestAtATime
    <3> QED
      BY <1>2, <2>3, <3>1 DEF Inv, OneRequestAtATime
  <2>5. AskedInState'
    BY <1>2, <2>3 DEF Inv, AskedInState
  <2> QED
    BY <1>1, <2>2, <2>3, <2>4, <2>5
       DEF Inv, OneTransfer, ResetFirst, NoncePartInRange
<1>7. CASE r.what # "output"
  <2>1. OneTransfer' /\ OneRequestAtATime' /\ AskedInState'
    BY <1>1, <1>4, <1>7 DEF OneTransfer, OneRequestAtATime, AskedInState
  <2>2. \/ state = "SENDING_RESET"
        \/ r.what = "nonce" /\ state = "SENDING_NONCE"
        \/ r.what = "state" /\ state = "WAITING_FOR_SIG"
        \/ r.what = "signature" /\ state = "RECEIVING_SIG"
    BY <1>2, <1>7 DEF Inv, AskedInState
  <2>3. busy
    BY <1>2, <1>7 DEF Inv, OneRequestAtATime
  <2>4. r.to # auth_dev => busy'
    BY <1>5, <2>3
  <2> DEFINE Done == /\ signer' \in [Devices -> Signer] /\ state' \in States
                     /\ signature' \in [SigIndex -> Signature]
                     /\ signature_part' \in SigIndex /\ signature_ready' \in BOOLEAN
                     /\ ResetFirst' /\ NoncePartInRange'
  <2>5. ASSUME r.what = "reset" PROVE Done
    <3>1. ResetDone(r.to)
      BY <2>5 DEF Complete
    <3>2. signer' \in [Devices -> Signer]
      BY <1>3, <3>1, Types DEF ResetDone, Inv, TypeOK
    <3>3. state = "SENDING_RESET" /\ nonce_part = 0 /\ 0 < NonceParts
      BY <2>2, <2>5, PartsAssumption DEF Inv, ResetFirst
    <3> QED
      BY <1>1, <3>1, <3>2, <3>3
         DEF ResetDone, Inv, TypeOK, States, ResetFirst, NoncePartInRange
  <2>6. ASSUME r.what = "nonce" PROVE Done
    <3>1. NonceDone(r.to, r.part, r.payload)
      BY <2>6 DEF Complete
    <3>2. signer' \in [Devices -> Signer]
      <4> DEFINE s == [signer[r.to] EXCEPT !.nonce[r.part] = r.payload, !.signed = FALSE]
      <4>1. signer[r.to] \in Signer /\ signer \in [Devices -> Signer]
        BY <1>3 DEF Inv, TypeOK
      <4>2. s \in Signer
        BY <1>3, <4>1 DEF Signer
      <4>3. signer' = [signer EXCEPT ![r.to] = s]
        BY <3>1 DEF NonceDone
      <4> HIDE DEF s
      <4> QED
        BY <1>3, <4>1, <4>2, <4>3
    <3>3. nonce_part # NonceParts => nonce_part < NonceParts
      BY PartsAssumption DEF Inv, TypeOK
    <3>4. CASE r.to = auth_dev
      BY <1>1, <3>1, <3>2, <3>3, <3>4
         DEF NonceDone, Inv, TypeOK, States, ResetFirst, NoncePartInRange
    <3>5. CASE r.to # auth_dev
      BY <1>1, <2>4, <3>1, <3>2, <3>5
         DEF NonceDone, Inv, TypeOK, States, ResetFirst, NoncePartInRange
    <3> QED
      BY <3>4, <3>5
  <2>7. ASSUME r.what = "state" PROVE Done
    <3>1. StateAnswered(r.to)
      BY <2>7 DEF Complete
    <3> QED
      BY <1>1, <2>2, <2>7, <3>1, Types
         DEF StateAnswered, Inv, TypeOK, States, ResetFirst, NoncePartInRange
  <2>8. ASSUME r.what = "signature" PROVE Done
    <3>1. SignatureAnswered(r.to)
      BY <2>8 DEF Complete
    <3>2. /\ signer[r.to] \in Signer /\ signer[r.to].next \in SigIndex
          /\ Signed(r.to) \in Challenges \cup {None}
      BY <1>3, Types DEF Inv, TypeOK, Signer, Signed
    <3>3. (signer[r.to].next + 1) % SigParts \in SigIndex
      BY <3>2, PartsAssumption DEF SigIndex
    <3>4. signer' \in [Devices -> Signer]
      BY <1>3, <3>1, <3>2, <3>3 DEF SignatureAnswered, Inv, TypeOK, Signer
    <3>5. signature' \in [SigIndex -> Signature]
      BY <3>1, <3>2 DEF SignatureAnswered, Inv, TypeOK, Signature
    <3>6. signature_part' \in SigIndex /\ signature_ready' \in BOOLEAN
      BY <3>1, NextPartType DEF SignatureAnswered, Inv, TypeOK
    <3> QED
      BY <1>1, <2>2, <2>8, <3>1, <3>4, <3>5, <3>6
         DEF SignatureAnswered, Inv, TypeOK, States, ResetFirst, NoncePartInRange
  <2>9. Done
    BY <1>3, <1>7, <2>5, <2>6, <2>7, <2>8
  <2>10. TypeOK'
    BY <1>1, <1>5, <2>9 DEF Inv, TypeOK
  <2> QED
    BY <2>1, <2>9, <2>10 DEF Inv
<1> QED
  BY <1>6, <1>7

\* A transfer that is cut off, when its device leaves, is gone.
LEMMA CutOff ==
  ASSUME Inv, NEW d \in Devices, Unplug(d)
  PROVE  /\ wire' \in {wire, << >>} /\ wire' \in {<< >>} \cup {<< r >> : r \in Request}
         /\ \/ InFlight' = InFlight
            \/ \A i \in Asked' : i \in Nat \ {0} /\ i + 1 \in Asked /\ InFlight'[i] = InFlight[i + 1]
<1>1. queue' = queue
  BY DEF Unplug
<1>2. CASE wire' = wire
  BY <1>1, <1>2 DEF Inv, TypeOK, InFlight
<1>3. CASE wire' # wire
  <2>1. wire # << >> /\ wire' = << >>
    BY <1>3 DEF Unplug
  <2> QED
    BY <1>1, <2>1, Ended DEF Inv
<1> QED
  BY <1>2, <1>3

LEMMA DeviceSteps ==
  ASSUME Inv, \E d \in Devices : Sign(d) \/ Plug(d) \/ Unplug(d)
  PROVE  Inv'
<1>1. PICK d \in Devices : Sign(d) \/ Plug(d) \/ Unplug(d)
  OBVIOUS
<1>2. CASE Sign(d)
  <2>1. signer' \in [Devices -> Signer]
    BY <1>2 DEF Sign, Inv, TypeOK, Signer
  <2>2. TypeOK'
    BY <1>2, <2>1 DEF Sign, Inv, TypeOK, relay, link
  <2>3. InFlight' = InFlight
    BY <1>2 DEF Sign, InFlight, link
  <2> QED
    BY <1>2, <2>2, <2>3, LinkUntouched
       DEF Sign, Inv, OneTransfer, ResetFirst, NoncePartInRange, relay, link
<1>3. CASE Plug(d)
  <2>1. TypeOK'
    BY <1>3 DEF Plug, Inv, TypeOK, link
  <2>2. InFlight' = InFlight
    BY <1>3 DEF Plug, InFlight, link
  <2> QED
    BY <1>3, <2>1, <2>2, LinkUntouched
       DEF Plug, Inv, OneTransfer, ResetFirst, NoncePartInRange, link
<1>4. CASE Unplug(d)
  <2>1. signer' \in [Devices -> Signer]
    BY <1>4, Types DEF Unplug, Inv, TypeOK
  <2>2. /\ auth_dev' \in Signers \cup {None} /\ attached' \subseteq Devices
        /\ disturbed' \in BOOLEAN /\ failed' \in BOOLEAN
    BY <1>4 DEF Unplug, Inv, TypeOK
  <2>3. UNCHANGED <<state, nonce, nonce_part, signature, signature_part,
                    signature_ready, busy, queue, ready_to_send, console>>
    BY <1>4 DEF Unplug
  <2>4. TypeOK'
    BY <1>4, <2>1, <2>2, <2>3, CutOff DEF Inv, TypeOK
  <2>5. OneTransfer'
    BY <1>4, <2>3, CutOff DEF Inv, OneTransfer
  <2>6. CASE InFlight' = InFlight
    BY <2>3, <2>4, <2>5, <2>6, LinkUntouched DEF Inv, ResetFirst, NoncePartInRange
  <2>7. CASE \A i \in Asked' : i \in Nat \ {0} /\ i + 1 \in Asked /\ InFlight'[i] = InFlight[i + 1]
    <3>1. \A i, j \in Asked' : i = j
      BY <2>7 DEF Inv, OneRequestAtATime
    <3>2. OneRequestAtATime' /\ AskedInState'
      BY <2>3, <2>7, <3>1 DEF Inv, OneRequestAtATime, AskedInState
    <3> QED
      BY <2>3, <2>4, <2>5, <3>2 DEF Inv, ResetFirst, NoncePartInRange
  <2> QED
    BY <1>4, <2>6, <2>7, CutOff
<1> QED
  BY <1>1, <1>2, <1>3, <1>4

LEMMA Stutter == Inv /\ UNCHANGED vars => Inv'
<1> SUFFICES ASSUME Inv, UNCHANGED vars PROVE Inv'
  OBVIOUS
<1>1. InFlight' = InFlight
  BY DEF vars, link, InFlight
<1>2. TypeOK'
  BY DEF Inv, TypeOK, vars, relay, link, world
<1> QED
  BY <1>1, <1>2, LinkUntouched
     DEF Inv, OneTransfer, ResetFirst, NoncePartInRange, vars, relay, link

LEMMA Step == Inv /\ [Next]_vars => Inv'
BY ConsoleSteps, RequestSteps, QueueSteps, AnswerSteps, DeviceSteps, Stutter DEF Next

LEMMA Invariance == Spec => []Inv
BY Initially, Step, PTL DEF Spec

\* Every variable keeps its type: in particular, no part outside the buffers
\* for nonce and signature is ever read or written.
THEOREM TypeCorrect == Spec => []TypeOK
BY Invariance, PTL DEF Inv

\* There is at most one request of the relay under way.
THEOREM OneRequest == Spec => []OneRequestAtATime
BY Invariance, PTL DEF Inv

\* No part of the nonce after its last one is sent on.
THEOREM NonceStaysInRange == Spec => []NoncePartInRange
BY Invariance, PTL DEF Inv
-----------------------------------------------------------------------------
(* The exchange.                                                           *)

LEMMA IdleAsksNothing ==
  ASSUME Inv, state = "IDLE" PROVE Asked = {}
BY DEF Inv, AskedInState

LEMMA ConsoleKeepsExchange ==
  ASSUME Inv, Exchange,
         \/ \E c \in Challenges : StartExchange(c)
         \/ SendPart \/ SeeReady \/ ReadPart
  PROVE  Exchange'
<1> SUFFICES ASSUME ~disturbed' PROVE Exchange'
  BY DEF Exchange
<1>1. InFlight' = InFlight /\ Asked' = Asked /\ auth_dev' = auth_dev
  <2>1. InFlight' = InFlight /\ auth_dev' = auth_dev
    BY DEF StartExchange, SendPart, SeeReady, ReadPart, InFlight, link, relay
  <2> QED
    BY <2>1, Unmoved
<1>2. console \in Console
  BY DEF Inv, TypeOK
<1>3. CASE \E c \in Challenges : StartExchange(c)
  <2>1. PICK c \in Challenges : StartExchange(c)
    BY <1>3
  <2>2. state = "IDLE" /\ state' = "IDLE" /\ Asked' = {}
    BY <1>1, <2>1, IdleAsksNothing DEF StartExchange
  <2>3. /\ console'.phase = "sending" /\ console'.part = 0 /\ console'.got = << >>
        /\ ~signature_ready'
    BY <2>1 DEF StartExchange
  <2>4. AskedOfSigner'
    BY <2>2 DEF AskedOfSigner
  <2>5. Asking'
    BY <2>2, <2>3, PartsAssumption DEF Asking, NonceIndex
  <2> QED
    BY <2>3, <2>4, <2>5 DEF Exchange
<1>4. CASE SendPart
  <2>1. ~disturbed /\ console.phase = "sending"
    BY <1>4 DEF SendPart
  <2>2. Asking /\ console.got = << >>
    BY <2>1 DEF Exchange
  <2>3. Asked' = {}
    BY <1>1, <2>2, IdleAsksNothing DEF Asking
  <2>4. AskedOfSigner'
    BY <2>3 DEF AskedOfSigner
  <2>5. nonce' = [nonce EXCEPT ![console.part] = Challenge] /\ signature_ready' = signature_ready
    BY <1>4 DEF SendPart, ReceiveNonce, Challenge
  <2>6. /\ nonce \in [NonceIndex -> Challenges \cup {None}]
        /\ console.part \in NonceIndex
    BY <1>2 DEF Inv, TypeOK, Console
  <2>7. CASE console.part = NonceParts - 1
    <3>1. /\ console'.phase = "waiting" /\ Challenge' = Challenge
          /\ console'.got = << >> /\ state' = "SENDING_RESET"
      BY <1>2, <1>4, <2>2, <2>7 DEF SendPart, ReceiveNonce, Console, Challenge
    <3>2. \A k \in NonceIndex : nonce'[k] = Challenge
      BY <2>1, <2>2, <2>5, <2>6, <2>7, PartsAssumption DEF Asking, NonceIndex
    <3>3. Working'
      BY <2>2, <2>5, <3>1, <3>2 DEF Working, Asking
    <3> QED
      BY <2>4, <3>1, <3>3 DEF Exchange
  <2>8. CASE console.part # NonceParts - 1
    <3>1. /\ console'.phase = "sending" /\ Challenge' = Challenge
          /\ console'.got = << >> /\ console'.part = console.part + 1 /\ state' = state
      BY <1>2, <1>4, <2>1, <2>2, <2>8 DEF SendPart, ReceiveNonce, Console, Challenge
    <3>2. \A k \in NonceIndex : k < console.part + 1 => nonce'[k] = Challenge
      BY <2>1, <2>2, <2>5, <2>6, PartsAssumption DEF Asking, NonceIndex
    <3>3. Asking'
      BY <2>2, <2>5, <3>1, <3>2 DEF Asking
    <3> QED
      BY <2>4, <3>1, <3>3 DEF Exchange
  <2> QED
    BY <2>7, <2>8
<1>5. CASE SeeReady
  <2>1. ~disturbed /\ console.phase = "waiting" /\ signature_ready
    BY <1>5 DEF SeeReady
  <2>2. Answered /\ console.got = << >> /\ AskedOfSigner
    BY <2>1 DEF Exchange, Working
  <2>3. UNCHANGED relay /\ console'.phase = "reading" /\ console'.got = << >>
        /\ Challenge' = Challenge
    BY <1>2, <1>5, <2>2 DEF SeeReady, Console, Challenge
  <2>4. AskedOfSigner'
    BY <1>1, <2>2, <2>3 DEF AskedOfSigner, relay
  <2>5. Answered'
    BY <2>1, <2>2, <2>3, PartsAssumption DEF Answered, SignedPart, relay
  <2> QED
    BY <2>3, <2>4, <2>5 DEF Exchange
<1>6. CASE ReadPart
  <2>1. ~disturbed /\ console.phase = "reading" /\ Len(console.got) < SigParts
    BY <1>6 DEF ReadPart
  <2>2. Answered /\ AskedOfSigner
    BY <2>1 DEF Exchange
  <2>3. signature_part = Len(console.got) /\ signature_part \in SigIndex
    BY <2>1, <2>2 DEF Answered, Inv, TypeOK
  <2>4. signature[signature_part] = SignedPart(signature_part)
    BY <2>2, <2>3 DEF Answered
  <2>5. signature[signature_part] \in Signature
    BY DEF Inv, TypeOK
  <2>6. console.got \in Seq(Signature)
    BY <1>2 DEF Console
  <2>7. /\ console'.phase = "reading" /\ Challenge' = Challenge
        /\ console'.got = Append(console.got, signature[signature_part])
    BY <1>2, <1>6, <2>1 DEF ReadPart, Console, Challenge
  <2>8. /\ Len(console'.got) = Len(console.got) + 1
        /\ \A k \in 1 .. Len(console.got) : console'.got[k] = console.got[k]
        /\ console'.got[Len(console.got) + 1] = SignedPart(signature_part)
    BY <2>4, <2>5, <2>6, <2>7
  <2>9. \A k \in 1 .. Len(console'.got) : console'.got[k] = SignedPart(k - 1)
    <3> SUFFICES ASSUME NEW k \in 1 .. Len(console'.got)
                 PROVE  console'.got[k] = SignedPart(k - 1)
      OBVIOUS
    <3>1. Len(console.got) \in Nat
      BY <2>6
    <3>2. CASE k \in 1 .. Len(console.got)
      BY <2>1, <2>2, <2>8, <3>2 DEF Answered
    <3>3. CASE k = Len(console.got) + 1
      BY <2>3, <2>8, <3>1, <3>3
    <3> QED
      BY <2>8, <3>1, <3>2, <3>3
  <2>10. Len(console'.got) < SigParts => signature_part' = Len(console'.got)
    BY <1>6, <2>3, <2>8, PartsAssumption DEF ReadPart, NextSignaturePart, SigIndex
  <2>11. UNCHANGED <<state, signature, signature_ready>>
    BY <1>6 DEF ReadPart
  <2>12. Answered'
    BY <2>2, <2>7, <2>9, <2>10, <2>11 DEF Answered, SignedPart
  <2>13. AskedOfSigner'
    BY <1>1, <1>6, <2>2, <2>7 DEF AskedOfSigner, ReadPart
  <2> QED
    BY <2>7, <2>12, <2>13 DEF Exchange
<1> QED
  BY <1>3, <1>4, <1>5, <1>6

\* While the relay works, the console waits for the signature.
LEMMA WorkingState ==
  ASSUME Exchange, ~disturbed, state # "IDLE", Inv
  PROVE  console.phase = "waiting" /\ Working /\ AskedOfSigner /\ console.got = << >>
BY DEF Exchange, Asking, Answered, Inv, TypeOK, Console

LEMMA RequestKeepsExchange ==
  ASSUME Inv, Exchange, MainLoopTask
  PROVE  Exchange'
<1> SUFFICES ASSUME ~disturbed' PROVE Exchange'
  BY DEF Exchange
<1>1. PICK r \in Request :
           /\ r.to = auth_dev
           /\ queue' = Append(queue, r) \/ queue' = queue
           /\ \/ r.what = "reset" /\ state = "SENDING_RESET" /\ nonce_part' = nonce_part
              \/ /\ r.what = "nonce" /\ state = "SENDING_NONCE"
                 /\ nonce_part < NonceParts /\ nonce_part' = nonce_part + 1
                 /\ r.part = nonce_part /\ r.payload = nonce[nonce_part]
              \/ r.what = "state" /\ state = "WAITING_FOR_SIG" /\ nonce_part' = nonce_part
              \/ r.what = "signature" /\ state = "RECEIVING_SIG" /\ nonce_part' = nonce_part
  BY OneRequestIsMade
<1>2. UNCHANGED <<auth_dev, state, nonce, signature, signature_part,
                  signature_ready, ready_to_send, wire, attached, signer,
                  console, disturbed>>
  BY DEF MainLoopTask
<1>3. ~busy /\ busy' /\ auth_dev # None
  BY DEF MainLoopTask, SendReset, SendNonce, PollState, FetchSignature
<1>4. console.phase = "waiting" /\ Working /\ console.got = << >>
  BY <1>1, <1>2, WorkingState
<1>5. Asked = {}
  BY <1>3 DEF Inv, OneRequestAtATime
<1>6. \A i \in Asked' : InFlight'[i] = r
  <2>1. CASE queue' = queue
    BY <1>2, <1>5, <2>1, Unmoved DEF InFlight
  <2>2. CASE queue' = Append(queue, r)
    BY <1>2, <1>5, <2>2, Appended DEF Inv
  <2> QED
    BY <1>1, <2>1, <2>2
<1>7. nonce_part \in Nat
  BY PartsAssumption DEF Inv, TypeOK
<1>8. AskedOfSigner'
  <2>1. r.what = "nonce" => r.part = nonce_part' - 1 /\ r.payload = Challenge
    <3> SUFFICES ASSUME r.what = "nonce"
                 PROVE  r.part = nonce_part' - 1 /\ r.payload = Challenge
      OBVIOUS
    <3>1. nonce_part \in NonceIndex
      BY <1>1, <1>7, PartsAssumption DEF NonceIndex
    <3> QED
      BY <1>1, <1>4, <1>7, <3>1 DEF Working
  <2> QED
    BY <1>1, <1>2, <1>6, <2>1 DEF AskedOfSigner, Challenge
<1>9. Working'
  <2>1. state = "SENDING_NONCE" => SentOn' = SentOn
    BY <1>1, <1>3, <1>7 DEF SentOn
  <2> QED
    BY <1>2, <1>4, <2>1 DEF Working, SignerHas, SignedPart, Challenge
<1> QED
  BY <1>1, <1>2, <1>4, <1>8, <1>9 DEF Exchange

\* All that Exchange speaks of, but for the requests.
LEMMA OnlyTheQueue ==
  ASSUME Exchange, UNCHANGED <<relay, signer, console, disturbed>>,
         ~disturbed => AskedOfSigner'
  PROVE  Exchange'
BY DEF Exchange, Asking, Working, Answered, SentOn, SignerHas, SignedPart, Challenge, relay

LEMMA QueueKeepsExchange ==
  ASSUME Inv, Exchange, SendOutReport \/ \E d \in Devices : QueueOutput(d)
  PROVE  Exchange'
<1>1. UNCHANGED <<relay, signer, console, disturbed>>
  BY DEF SendOutReport, QueueOutput, world
<1>2. \A i \in Asked' : i \in Asked /\ InFlight'[i] = InFlight[i]
  <2>1. CASE SendOutReport
    BY <2>1, Sent, Unmoved DEF Inv
  <2>2. CASE \E d \in Devices : QueueOutput(d)
    <3>1. PICK d \in Devices : QueueOutput(d)
      BY <2>2
    <3> DEFINE r == [to |-> d, what |-> "output", part |-> 0, payload |-> None]
    <3>2. r \in Request /\ r.what = "output"
      BY Types DEF Request
    <3>3. queue' = Append(queue, r) /\ wire' = wire
      BY <3>1 DEF QueueOutput
    <3> HIDE DEF r
    <3> QED
      BY <3>2, <3>3, Appended DEF Inv
  <2> QED
    BY <2>1, <2>2
<1>3. ~disturbed => AskedOfSigner'
  BY <1>1, <1>2 DEF Exchange, AskedOfSigner, relay, Challenge
<1> QED
  BY <1>1, <1>3, OnlyTheQueue

LEMMA DeviceKeepsExchange ==
  ASSUME Inv, Exchange, \E d \in Devices : Sign(d) \/ Plug(d) \/ Unplug(d)
  PROVE  Exchange'
<1> SUFFICES ASSUME ~disturbed' PROVE Exchange'
  BY DEF Exchange
<1>1. PICK d \in Devices : Sign(d) \/ Plug(d) \/ Unplug(d)
  OBVIOUS
<1>2. /\ ~disturbed
      /\ UNCHANGED <<state, nonce, nonce_part, signature, signature_part,
                     signature_ready, busy, console>>
  <2>1. CASE Sign(d)
    BY <2>1 DEF Sign, relay
  <2>2. CASE Plug(d)
    BY <2>2 DEF Plug
  <2>3. CASE Unplug(d)
    BY <2>3 DEF Unplug, Inv, TypeOK
  <2> QED
    BY <1>1, <2>1, <2>2, <2>3
<1>3. console.phase # "reading" => console.got = << >>
  BY <1>2 DEF Exchange
<1>4. signer \in [Devices -> Signer] /\ auth_dev \in Signers \cup {None}
  BY DEF Inv, TypeOK
<1>5. \/ Asked' = Asked /\ InFlight' = InFlight
      \/ \A i \in Asked' : i + 1 \in Asked /\ InFlight'[i] = InFlight[i + 1]
  <2>1. CASE Sign(d) \/ Plug(d)
    <3>1. InFlight' = InFlight
      BY <2>1 DEF Sign, Plug, link, InFlight
    <3> QED
      BY <3>1, Unmoved
  <2>2. CASE Unplug(d)
    BY <2>2, CutOff, Unmoved
  <2> QED
    BY <1>1, <2>1, <2>2
<1>6. CASE state = "IDLE"
  <2>1. Asked' = {}
    BY <1>5, <1>6, IdleAsksNothing
  <2>2. AskedOfSigner'
    BY <2>1 DEF AskedOfSigner
  <2>3. console.phase \in {"idle", "sending"} => Asking'
    BY <1>2, <1>6 DEF Exchange, Asking, Challenge
  <2>4. console.phase \in {"waiting", "reading"} => Answered'
    BY <1>2, <1>6 DEF Exchange, Answered, SignedPart, Challenge
  <2> QED
    BY <1>2, <1>3, <1>6, <2>2, <2>3, <2>4 DEF Exchange
<1>7. CASE state # "IDLE"
  <2>1. console.phase = "waiting" /\ Working /\ AskedOfSigner
    BY <1>2, <1>7, WorkingState
  <2>2. CASE auth_dev = None
    <3>1. state = "SENDING_RESET"
      BY <2>1, <2>2 DEF Working
    <3>2. Asked = {}
      <4> SUFFICES ASSUME NEW i \in Asked PROVE FALSE
        OBVIOUS
      <4>1. InFlight[i].to \in Devices
        BY InFlightType DEF Inv, Request
      <4> QED
        BY <2>1, <2>2, <4>1, Types DEF AskedOfSigner
    <3>3. AskedOfSigner'
      BY <1>5, <3>2 DEF AskedOfSigner
    <3>4. Working'
      BY <1>2, <2>1, <3>1 DEF Working, Challenge
    <3> QED
      BY <1>2, <1>3, <1>7, <2>1, <3>3, <3>4 DEF Exchange
  <2>3. CASE auth_dev # None
    <3>1. auth_dev' = auth_dev /\ auth_dev \in Devices
      BY <1>1, <1>4, <1>7, <2>3, Types DEF Sign, Plug, Unplug, relay
    <3>2. /\ signer'[auth_dev].nonce = signer[auth_dev].nonce
          /\ signer'[auth_dev].next = signer[auth_dev].next
          /\ signer[auth_dev].signed => signer'[auth_dev].signed
      <4>1. CASE Sign(d)
        BY <1>4, <3>1, <4>1 DEF Sign, Signer
      <4>2. CASE Plug(d)
        BY <4>2 DEF Plug
      <4>3. CASE Unplug(d)
        <5>1. d # auth_dev
          BY <1>7, <2>3, <4>3 DEF Unplug
        <5> QED
          BY <1>4, <3>1, <4>3, <5>1 DEF Unplug
      <4> QED
        BY <1>1, <4>1, <4>2, <4>3
    <3>3. AskedOfSigner'
      BY <1>2, <1>5, <2>1, <3>1 DEF AskedOfSigner, Challenge
    <3>4. Working'
      BY <1>2, <2>1, <3>1, <3>2
         DEF Working, SentOn, SignerHas, SignedPart, Challenge
    <3> QED
      BY <1>2, <1>3, <1>7, <2>1, <3>3, <3>4 DEF Exchange
  <2> QED
    BY <2>2, <2>3
<1> QED
  BY <1>6, <1>7

LEMMA AnswerKeepsExchange ==
  ASSUME Inv, Exchange, Complete
  PROVE  Exchange'
<1> SUFFICES ASSUME ~disturbed' PROVE Exchange'
  BY DEF Exchange
<1>1. /\ wire # << >> /\ wire' = << >> /\ ~disturbed
      /\ UNCHANGED <<auth_dev, nonce, nonce_part, queue, console, disturbed>>
  BY DEF Complete
<1> DEFINE r == Head(wire)
<1>2. /\ r \in Request /\ InFlight[1] = r
      /\ r.what # "output" => 1 \in Asked
      /\ \A i \in Asked' : i \in Nat \ {0} /\ i + 1 \in Asked /\ InFlight'[i] = InFlight[i + 1]
  BY <1>1, Ended DEF Inv
<1>3. CASE r.what = "output"
  <2>1. /\ UNCHANGED <<state, signature, signature_part, signature_ready, signer>>
        /\ busy' = busy
    BY <1>3 DEF Complete, OutputDone, Inv, TypeOK
  <2>2. UNCHANGED <<relay, signer, console, disturbed>>
    BY <1>1, <2>1 DEF relay
  <2>3. AskedOfSigner'
    BY <1>1, <1>2, <2>1 DEF Exchange, AskedOfSigner, Challenge
  <2> QED
    BY <2>2, <2>3, OnlyTheQueue
<1>4. CASE r.what # "output"
  <2>1. 1 \in Asked /\ busy
    BY <1>2, <1>4 DEF Inv, OneRequestAtATime
  <2>2. state # "IDLE"
    BY <2>1, IdleAsksNothing
  <2>3. console.phase = "waiting" /\ Working /\ AskedOfSigner /\ console.got = << >>
    BY <1>1, <2>2, WorkingState
  <2>4. /\ r.to = auth_dev /\ auth_dev \in Devices /\ auth_dev # None
        /\ state = "SENDING_RESET" => r.what = "reset"
        /\ r.what = "nonce" => r.part = nonce_part - 1 /\ r.payload = Challenge
    <3>1. r.to \in Devices
      BY <1>2 DEF Request
    <3> QED
      BY <1>2, <2>1, <2>3, <3>1, Types DEF AskedOfSigner
  <2>5. \/ r.what = "reset" /\ state = "SENDING_RESET"
        \/ r.what = "nonce" /\ state = "SENDING_NONCE"
        \/ r.what = "state" /\ state = "WAITING_FOR_SIG"
        \/ r.what = "signature" /\ state = "RECEIVING_SIG"
    BY <1>2, <1>4, <2>1, <2>4 DEF Inv, AskedInState, Request
  <2>6. AskedOfSigner'
    <3>1. Asked' = {}
      <4> SUFFICES ASSUME NEW i \in Asked' PROVE FALSE
        OBVIOUS
      <4>1. i + 1 \in Asked /\ i \in Nat \ {0}
        BY <1>2
      <4> QED
        BY <2>1, <4>1 DEF Inv, OneRequestAtATime
    <3> QED
      BY <3>1 DEF AskedOfSigner
  <2>7. ~busy'
    BY <1>4, <2>4 DEF Complete
  <2>8. /\ signer \in [Devices -> Signer] /\ signer[auth_dev] \in Signer
        /\ nonce_part \in Nat /\ nonce_part <= NonceParts
    BY <2>4, PartsAssumption DEF Inv, TypeOK
  <2> DEFINE Kept == IF state' = "IDLE" THEN Answered' ELSE Working'
  <2>9. ASSUME r.what = "reset" PROVE Kept
    <3>1. ResetDone(auth_dev)
      BY <2>4, <2>9 DEF Complete
    <3>2. /\ state' = "SENDING_NONCE" /\ signer'[auth_dev].next = 0
          /\ UNCHANGED <<signature, signature_part, signature_ready>>
      BY <2>4, <2>8, <3>1 DEF ResetDone, FreshSigner
    <3>3. nonce_part' = 0 /\ SentOn' = 0
      BY <1>1, <2>5, <2>7, <2>9 DEF Inv, ResetFirst, SentOn
    <3> QED
      BY <1>1, <2>3, <2>4, <3>2, <3>3 DEF Working, Challenge, NonceIndex
  <2>10. ASSUME r.what = "nonce" PROVE Kept
    <3>1. NonceDone(auth_dev, nonce_part - 1, Challenge)
      BY <2>4, <2>10 DEF Complete
    <3>2. /\ state = "SENDING_NONCE" /\ SentOn = nonce_part - 1 /\ SentOn' = nonce_part
      BY <1>1, <2>1, <2>5, <2>7, <2>10 DEF SentOn
    <3>3. /\ signer'[auth_dev].nonce = [signer[auth_dev].nonce EXCEPT ![nonce_part - 1] = Challenge]
          /\ signer'[auth_dev].next = signer[auth_dev].next
          /\ UNCHANGED <<signature, signature_part, signature_ready>>
      BY <2>4, <2>8, <3>1 DEF NonceDone, Signer
    <3>4. \A k \in NonceIndex : k < nonce_part => SignerHas(k)'
      <4> SUFFICES ASSUME NEW k \in NonceIndex, k < nonce_part PROVE SignerHas(k)'
        OBVIOUS
      <4>1. signer[auth_dev].nonce \in [NonceIndex -> Challenges \cup {None}]
        BY <2>8 DEF Signer
      <4>2. k = nonce_part - 1 \/ k < nonce_part - 1
        BY <2>8 DEF NonceIndex
      <4> QED
        BY <1>1, <2>3, <3>2, <3>3, <4>1, <4>2 DEF Working, SignerHas, Challenge
    <3>5. CASE nonce_part = NonceParts
      <4>1. state' = "WAITING_FOR_SIG"
        BY <3>1, <3>5 DEF NonceDone
      <4>2. \A k \in NonceIndex : SignerHas(k)'
        BY <3>4, <3>5, PartsAssumption DEF NonceIndex
      <4> QED
        BY <1>1, <2>3, <2>4, <3>2, <3>3, <4>1, <4>2 DEF Working, Challenge
    <3>6. CASE nonce_part # NonceParts
      <4>1. state' = "SENDING_NONCE"
        BY <3>1, <3>2, <3>6 DEF NonceDone
      <4> QED
        BY <1>1, <2>3, <2>4, <3>2, <3>3, <3>4, <4>1 DEF Working, Challenge
    <3> QED
      BY <3>5, <3>6
  <2>11. ASSUME r.what = "state" PROVE Kept
    <3>1. StateAnswered(auth_dev)
      BY <2>4, <2>11 DEF Complete
    <3>2. state = "WAITING_FOR_SIG" /\ UNCHANGED <<signer, signature, signature_ready>>
      BY <2>5, <2>11, <3>1 DEF StateAnswered
    <3>3. CASE signer[auth_dev].signed
      <4>1. state' = "RECEIVING_SIG" /\ signature_part' = 0
        BY <3>1, <3>3 DEF StateAnswered
      <4> QED
        BY <1>1, <2>3, <2>4, <3>2, <3>3, <4>1
           DEF Working, SignerHas, Challenge, SigIndex
    <3>4. CASE ~signer[auth_dev].signed
      <4>1. state' = state
        BY <3>1, <3>4 DEF StateAnswered
      <4> QED
        BY <1>1, <2>3, <2>4, <3>2, <4>1 DEF Working, SignerHas, Challenge
    <3> QED
      BY <3>3, <3>4
  <2>12. ASSUME r.what = "signature" PROVE Kept
    <3>1. SignatureAnswered(auth_dev)
      BY <2>4, <2>12 DEF Complete
    <3>2. /\ state = "RECEIVING_SIG" /\ signer[auth_dev].signed
          /\ signer[auth_dev].next = signature_part
          /\ \A k \in NonceIndex : signer[auth_dev].nonce[k] = Challenge
          /\ \A k \in SigIndex : k < signature_part => signature[k] = SignedPart(k)
      BY <2>3, <2>5, <2>12 DEF Working, SignerHas
    <3>3. Signed(auth_dev) = Challenge
      BY <3>2, Types DEF Signed
    <3>4. signature' = [signature EXCEPT ![signature_part] = SignedPart(signature_part)]
      BY <3>1, <3>2, <3>3 DEF SignatureAnswered, SignedPart
    <3>5. signature \in [SigIndex -> Signature] /\ signature_part \in SigIndex
      BY DEF Inv, TypeOK
    <3>6. \A k \in SigIndex : k < signature_part + 1 => signature'[k] = SignedPart(k)
      <4> SUFFICES ASSUME NEW k \in SigIndex, k < signature_part + 1
                   PROVE  signature'[k] = SignedPart(k)
        OBVIOUS
      <4>1. k = signature_part \/ k < signature_part
        BY <3>5 DEF SigIndex
      <4> QED
        BY <3>2, <3>4, <3>5, <4>1
    <3>7. CASE signature_part + 1 = SigParts
      <4>1. state' = "IDLE" /\ signature_ready' /\ signature_part' = 0
        BY <3>1, <3>7 DEF SignatureAnswered, NextSignaturePart
      <4>2. \A k \in SigIndex : signature'[k] = SignedPart(k)
        BY <3>6, <3>7, PartsAssumption DEF SigIndex
      <4> QED
        BY <1>1, <2>3, <4>1, <4>2 DEF Answered, SignedPart, Challenge
    <3>8. CASE signature_part + 1 # SigParts
      <4>1. /\ state' = "RECEIVING_SIG" /\ signature_ready' = signature_ready
            /\ signature_part' = signature_part + 1
        BY <3>1, <3>2, <3>8 DEF SignatureAnswered, NextSignaturePart
      <4>2. /\ signer'[auth_dev].nonce = signer[auth_dev].nonce
            /\ signer'[auth_dev].signed = signer[auth_dev].signed
            /\ signer'[auth_dev].next = (signer[auth_dev].next + 1) % SigParts
        BY <2>4, <2>8, <3>1 DEF SignatureAnswered, Signer
      <4>3. (signature_part + 1) % SigParts = signature_part + 1
        BY <3>5, <3>8, PartsAssumption DEF SigIndex
      <4> QED
        BY <1>1, <2>3, <2>4, <3>2, <3>6, <4>1, <4>2, <4>3
           DEF Working, SignerHas, SignedPart, Challenge
    <3> QED
      BY <3>7, <3>8
  <2>13. Kept
    BY <2>5, <2>9, <2>10, <2>11, <2>12
  <2>14. console'.phase = "waiting" /\ console'.got = << >>
    BY <1>1, <2>3
  <2> QED
    BY <2>6, <2>13, <2>14 DEF Exchange
<1> QED
  BY <1>3, <1>4

LEMMA ExchangeInitially == Init => Exchange
<1> SUFFICES ASSUME Init PROVE Exchange
  OBVIOUS
<1>1. Inv /\ state = "IDLE" /\ console.phase = "idle" /\ console.got = << >> /\ ~signature_ready
  BY Initially DEF Init
<1>2. Asked = {}
  BY <1>1, IdleAsksNothing
<1> QED
  BY <1>1, <1>2 DEF Exchange, AskedOfSigner, Asking

LEMMA ExchangeStep == Inv /\ Exchange /\ [Next]_vars => Exchange'
<1> SUFFICES ASSUME Inv, Exchange, [Next]_vars PROVE Exchange'
  OBVIOUS
<1>1. CASE UNCHANGED vars
  <2>1. UNCHANGED <<relay, signer, console, disturbed>> /\ InFlight' = InFlight
    BY <1>1 DEF vars, world, link, InFlight
  <2>2. ~disturbed => AskedOfSigner'
    BY <2>1, Unmoved DEF Exchange, AskedOfSigner, Challenge, relay
  <2> QED
    BY <2>1, <2>2, OnlyTheQueue
<1>2. CASE Next
  BY <1>2, ConsoleKeepsExchange, RequestKeepsExchange, QueueKeepsExchange,
     AnswerKeepsExchange, DeviceKeepsExchange DEF Next
<1> QED
  BY <1>1, <1>2

\* What the console reads as the signature is that of its own challenge, in an
\* exchange that was not disturbed.
THEOREM SignatureIsRight == Spec => []SignatureIsOfChallenge
<1>1. Init => Inv /\ Exchange
  BY Initially, ExchangeInitially
<1>2. Inv /\ Exchange /\ [Next]_vars => (Inv /\ Exchange)'
  BY Step, ExchangeStep
<1>3. Exchange => SignatureIsOfChallenge
  BY DEF Exchange, Answered, SignatureIsOfChallenge, SignedPart, Challenge
<1> QED
  BY <1>1, <1>2, <1>3, PTL DEF Spec
=============================================================================
