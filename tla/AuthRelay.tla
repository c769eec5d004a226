------------------------------ MODULE AuthRelay ------------------------------
(***************************************************************************)
(* Authentication as a PlayStation 4 controller: the console's challenge   *)
(* (a nonce) is passed in parts to an attached controller that can sign    *)
(* it, and the signature is passed back (ps_auth.cc).  Requests to the     *)
(* controller go through the queue that reports to all attached devices    *)
(* share, one transfer at a time (out_report.cc).  That queue is a         *)
(* sequence here; Ring has its array and counters.                         *)
(*                                                                         *)
(* Console, devices and transfers are the environment.  A part of a nonce  *)
(* is the challenge it belongs to, a part of a signature is the challenge  *)
(* signed and its own position.                                            *)
(***************************************************************************)
EXTENDS Integers, Sequences

CONSTANTS Devices,     \* attached devices
          Signers,     \* those that pass for an authentication device
          None,        \* no device: auth_dev = 0; no challenge
          Challenges,  \* the console's challenges
          NonceParts,  \* 5
          SigParts,    \* 19
          Capacity     \* OOR_BUFSIZE

ASSUME DevicesAssumption == Signers \subseteq Devices /\ None \notin Devices
ASSUME ChallengesAssumption == None \notin Challenges
ASSUME PartsAssumption ==
  /\ NonceParts \in Nat \ {0} /\ SigParts \in Nat \ {0} /\ Capacity \in Nat \ {0}

VARIABLES
  auth_dev, state, nonce, nonce_part, signature, signature_part,
  signature_ready, busy,  \* ps_auth.cc
  queue, ready_to_send,   \* out_report.cc
  wire,        \* the transfer under way: << >> or << request >>
  attached,    \* the devices plugged in
  signer,      \* device -> what it has of the nonce and how far it has got
  console,     \* where the console is in the exchange
  disturbed,   \* history: the current exchange was started over another one,
               \* or the authentication device left in the middle of it
  failed       \* history: a request was refused or a transfer cut off

relay == <<auth_dev, state, nonce, nonce_part, signature, signature_part,
           signature_ready, busy>>
link == <<queue, ready_to_send, wire>>
world == <<attached, signer, console, disturbed, failed>>
vars == <<relay, link, world>>

States == {"IDLE", "SENDING_RESET", "SENDING_NONCE", "WAITING_FOR_SIG",
           "RECEIVING_SIG"}
NonceIndex == 0 .. NonceParts - 1
SigIndex == 0 .. SigParts - 1

\* of = None: not a signature of any one challenge.
Signature == [of : Challenges \cup {None}, part : SigIndex]
Request == [to : Devices, what : {"reset", "nonce", "state", "signature", "output"},
            part : NonceIndex, payload : Challenges \cup {None}]
Signer == [nonce : [NonceIndex -> Challenges \cup {None}], signed : BOOLEAN,
           next : SigIndex]
Console == [phase : {"idle", "sending", "waiting", "reading"},
            challenge : Challenges \cup {None}, part : NonceIndex,
            got : Seq(Signature)]
NoNonce == [k \in NonceIndex |-> None]
Unset == [of |-> None, part |-> 0]
FreshSigner == [nonce |-> NoNonce, signed |-> FALSE, next |-> 0]

Init == /\ auth_dev = None /\ state = "IDLE" /\ busy = FALSE
        /\ nonce = NoNonce /\ nonce_part = 0
        /\ signature = [k \in SigIndex |-> Unset]
        /\ signature_part = 0 /\ signature_ready = FALSE
        /\ queue = << >> /\ ready_to_send = TRUE /\ wire = << >>
        /\ attached = {}
        /\ signer = [d \in Devices |-> FreshSigner]
        /\ console = [phase |-> "idle", challenge |-> None, part |-> 0, got |-> << >>]
        /\ disturbed = FALSE /\ failed = FALSE
-----------------------------------------------------------------------------
(* The console.                                                            *)

\* GET 0xF3 starts an exchange; the console may give up on the last one.
StartExchange(c) ==
  /\ signature_ready' = FALSE
  /\ console' = [phase |-> "sending", challenge |-> c, part |-> 0, got |-> << >>]
  /\ disturbed' = (state # "IDLE")
  /\ UNCHANGED <<auth_dev, state, nonce, nonce_part, signature, signature_part,
                 busy, link, attached, signer, failed>>

\* ps4_handle_set_report(): the last part sets the relay going, whatever it
\* was doing.
ReceiveNonce(k, c) ==
  /\ nonce' = [nonce EXCEPT ![k] = c]
  /\ IF k = NonceParts - 1
     THEN state' = "SENDING_RESET" /\ nonce_part' = 0
     ELSE UNCHANGED <<state, nonce_part>>

SendPart ==
  /\ console.phase = "sending"
  /\ ReceiveNonce(console.part, console.challenge)
  /\ console' = IF console.part = NonceParts - 1
                THEN [console EXCEPT !.phase = "waiting"]
                ELSE [console EXCEPT !.part = @ + 1]
  /\ UNCHANGED <<auth_dev, signature, signature_part, signature_ready, busy,
                 link, attached, signer, disturbed, failed>>

\* GET 0xF2 until the answer is that the signature is ready.
SeeReady ==
  /\ console.phase = "waiting" /\ signature_ready
  /\ console' = [console EXCEPT !.phase = "reading"]
  /\ UNCHANGED <<relay, link, attached, signer, disturbed, failed>>

\* One more part has gone through; signature_part serves reading and writing.
NextSignaturePart == IF signature_part + 1 = SigParts THEN 0 ELSE signature_part + 1

\* GET 0xF1.
ReadPart ==
  /\ console.phase = "reading" /\ Len(console.got) < SigParts
  /\ console' = [console EXCEPT !.got = Append(@, signature[signature_part])]
  /\ signature_part' = NextSignaturePart
  /\ UNCHANGED <<auth_dev, state, nonce, nonce_part, signature,
                 signature_ready, busy, link, attached, signer, disturbed, failed>>
-----------------------------------------------------------------------------
(* Requests.                                                               *)

Ask(what) == [to |-> auth_dev, what |-> what, part |-> 0, payload |-> None]

\* A full queue refuses the request, and does not tell.
Put(r) == IF Len(queue) = Capacity
          THEN failed' = TRUE /\ UNCHANGED queue
          ELSE queue' = Append(queue, r) /\ UNCHANGED failed

SendReset == /\ state = "SENDING_RESET" /\ Put(Ask("reset")) /\ busy' = TRUE
             /\ UNCHANGED nonce_part

SendNonce == /\ state = "SENDING_NONCE"
             /\ Put([to |-> auth_dev, what |-> "nonce", part |-> nonce_part,
                     payload |-> nonce[nonce_part]])
             /\ nonce_part' = nonce_part + 1 /\ busy' = TRUE

\* Mutant: the state is asked for again before the answer has come.
PollStateAgain == /\ state = "WAITING_FOR_SIG" /\ Put(Ask("state"))
                  /\ UNCHANGED <<nonce_part, busy>>

PollState == /\ state = "WAITING_FOR_SIG" /\ Put(Ask("state")) /\ busy' = TRUE
             /\ UNCHANGED nonce_part

FetchSignature == /\ state = "RECEIVING_SIG" /\ Put(Ask("signature")) /\ busy' = TRUE
                  /\ UNCHANGED nonce_part

\* ps4_main_loop_task(): one request at a time.
MainLoopTask ==
  /\ ~busy /\ auth_dev # None
  /\ SendReset \/ SendNonce \/ PollState \/ FetchSignature
  /\ UNCHANGED <<auth_dev, state, nonce, signature, signature_part,
                 signature_ready, ready_to_send, wire, attached, signer,
                 console, disturbed>>

\* A mapping drives an output of an attached device, a light for example.
QueueOutput(d) ==
  /\ d \in attached /\ Len(queue) < Capacity
  /\ queue' = Append(queue, [to |-> d, what |-> "output", part |-> 0,
                             payload |-> None])
  /\ UNCHANGED <<relay, ready_to_send, wire, world>>

\* do_send_out_report(): a request the USB stack does not take, because its
\* device is gone, stays at the head of the queue.
SendOutReport ==
  /\ queue # << >> /\ ready_to_send /\ Head(queue).to \in attached
  /\ ready_to_send' = FALSE
  /\ wire' = << Head(queue) >>
  /\ queue' = Tail(queue)
  /\ UNCHANGED <<relay, world>>
-----------------------------------------------------------------------------
(* Answers: the callbacks of out_report.cc, ps4_handle_get_report_response *)
(* and ps4_handle_set_report_complete().                                   *)

ResetDone(d) ==
  /\ signer' = [signer EXCEPT ![d] = FreshSigner]
  /\ IF d = auth_dev THEN state' = "SENDING_NONCE" ELSE UNCHANGED state
  /\ UNCHANGED <<signature, signature_part, signature_ready>>

\* Mutant: the last part is passed over.
NonceDoneEarly(d, k, c) ==
  /\ signer' = [signer EXCEPT ![d].nonce[k] = c, ![d].signed = FALSE]
  /\ IF d = auth_dev /\ nonce_part = NonceParts - 1
     THEN state' = "WAITING_FOR_SIG" ELSE UNCHANGED state
  /\ UNCHANGED <<signature, signature_part, signature_ready>>

NonceDone(d, k, c) ==
  /\ signer' = [signer EXCEPT ![d].nonce[k] = c, ![d].signed = FALSE]
  /\ IF d = auth_dev /\ nonce_part = NonceParts
     THEN state' = "WAITING_FOR_SIG" ELSE UNCHANGED state
  /\ UNCHANGED <<signature, signature_part, signature_ready>>

\* Mutant: the position stays where the console has left it.
StateAnsweredInPlace(d) ==
  /\ IF d = auth_dev /\ signer[d].signed
     THEN state' = "RECEIVING_SIG" ELSE UNCHANGED state
  /\ UNCHANGED <<signer, signature, signature_part, signature_ready>>

StateAnswered(d) ==
  /\ IF d = auth_dev /\ signer[d].signed
     THEN state' = "RECEIVING_SIG" /\ signature_part' = 0
     ELSE UNCHANGED <<state, signature_part>>
  /\ UNCHANGED <<signer, signature, signature_ready>>

\* What a device has signed, as far as it can be told from one challenge.
Signed(d) == IF \A k \in NonceIndex : signer[d].nonce[k] = signer[d].nonce[0]
             THEN signer[d].nonce[0] ELSE None

SignatureAnswered(d) ==
  /\ signer' = [signer EXCEPT ![d].next = (@ + 1) % SigParts]
  /\ IF d = auth_dev
     THEN /\ signature' = [signature EXCEPT ![signature_part] =
               [of |-> IF signer[d].signed THEN Signed(d) ELSE None,
                part |-> signer[d].next]]
          /\ signature_part' = NextSignaturePart
          /\ IF signature_part + 1 = SigParts
             THEN state' = "IDLE" /\ signature_ready' = TRUE
             ELSE UNCHANGED <<state, signature_ready>>
     ELSE UNCHANGED <<signature, signature_part, state, signature_ready>>

OutputDone == UNCHANGED <<state, signature, signature_part, signature_ready, signer>>

Complete ==
  /\ wire # << >>
  /\ wire' = << >> /\ ready_to_send' = TRUE
  /\ LET r == Head(wire) IN
       /\ \/ r.what = "reset" /\ ResetDone(r.to)
          \/ r.what = "nonce" /\ NonceDone(r.to, r.part, r.payload)
          \/ r.what = "state" /\ StateAnswered(r.to)
          \/ r.what = "signature" /\ SignatureAnswered(r.to)
          \/ r.what = "output" /\ OutputDone
       /\ busy' = (busy /\ (r.what = "output" \/ r.to # auth_dev))
  /\ UNCHANGED <<auth_dev, nonce, nonce_part, queue, attached, console,
                 disturbed, failed>>
-----------------------------------------------------------------------------
(* The devices.                                                            *)

Sign(d) ==
  /\ ~signer[d].signed /\ \A k \in NonceIndex : signer[d].nonce[k] # None
  /\ signer' = [signer EXCEPT ![d].signed = TRUE]
  /\ UNCHANGED <<relay, link, attached, console, disturbed, failed>>

\* ps4_device_connected(): the first candidate stays the authentication
\* device.
Plug(d) ==
  /\ d \notin attached
  /\ attached' = attached \cup {d}
  /\ auth_dev' = IF d \in Signers /\ auth_dev = None THEN d ELSE auth_dev
  /\ UNCHANGED <<state, nonce, nonce_part, signature, signature_part,
                 signature_ready, busy, link, signer, console, disturbed, failed>>

\* ps4_device_disconnected(): no other candidate takes over, busy and
\* ready_to_send stay as they are, and a transfer under way never completes.
Unplug(d) ==
  LET cut == wire # << >> /\ Head(wire).to = d IN
  /\ d \in attached
  /\ attached' = attached \ {d}
  /\ auth_dev' = IF d = auth_dev THEN None ELSE auth_dev
  /\ wire' = IF cut THEN << >> ELSE wire
  /\ signer' = [signer EXCEPT ![d] = FreshSigner]
  /\ disturbed' = (disturbed \/ (d = auth_dev /\ state # "IDLE"))
  /\ failed' = (failed \/ cut)
  /\ UNCHANGED <<state, nonce, nonce_part, signature, signature_part,
                 signature_ready, busy, queue, ready_to_send, console>>

Next == \/ \E c \in Challenges : StartExchange(c)
        \/ SendPart \/ SeeReady \/ ReadPart
        \/ MainLoopTask \/ SendOutReport \/ Complete
        \/ \E d \in Devices : QueueOutput(d) \/ Sign(d) \/ Plug(d) \/ Unplug(d)

Spec == Init /\ [][Next]_vars

\* The main loop runs for ever, a device that is attached completes the
\* transfers to it and signs what it has got.
Fairness == /\ WF_vars(MainLoopTask) /\ WF_vars(SendOutReport)
            /\ WF_vars(Complete)
            /\ \A d \in Devices : WF_vars(Sign(d))

FairSpec == Spec /\ Fairness
-----------------------------------------------------------------------------
(* Properties.                                                             *)

TypeOK == /\ auth_dev \in Signers \cup {None}
          /\ state \in States /\ busy \in BOOLEAN
          /\ nonce \in [NonceIndex -> Challenges \cup {None}]
          /\ nonce_part \in 0 .. NonceParts
          /\ signature \in [SigIndex -> Signature]
          /\ signature_part \in SigIndex /\ signature_ready \in BOOLEAN
          /\ queue \in Seq(Request) /\ Len(queue) <= Capacity
          /\ ready_to_send \in BOOLEAN
          /\ wire \in {<< >>} \cup {<< r >> : r \in Request}
          /\ attached \subseteq Devices
          /\ signer \in [Devices -> Signer]
          /\ console \in Console /\ Len(console.got) <= SigParts
          /\ disturbed \in BOOLEAN /\ failed \in BOOLEAN

\* The transfer under way and those waiting.
InFlight == wire \o queue
Asked == {i \in 1 .. Len(InFlight) : InFlight[i].what # "output"}

\* The relay has at most one request under way, and knows of it, however
\* devices come and go and whatever the console does meanwhile: answers carry
\* nothing that would tell one request from another.
OneRequestAtATime ==
  /\ \A i, j \in Asked : i = j
  /\ Asked # {} => busy

\* The relay never sends on more of the nonce than there is.
NoncePartInRange ==
  state = "SENDING_NONCE" /\ ~busy => nonce_part < NonceParts

\* What the console reads as the signature is the signature of its own
\* challenge, whole and in order, unless it started over in the middle of an
\* exchange or the authentication device left in the middle of it.
SignatureIsOfChallenge ==
  console.phase = "reading" /\ ~disturbed =>
    \A k \in 1 .. Len(console.got) :
      console.got[k] = [of |-> console.challenge, part |-> k - 1]

\* A challenge gets its signature in the end, if the devices stay, unless a
\* request for it met a full queue or a device left during a transfer.
ChallengeIsSigned ==
  <>[](attached = Devices /\ auth_dev # None /\ ~disturbed /\ ~failed)
    => (state = "SENDING_RESET" ~> signature_ready)
=============================================================================
