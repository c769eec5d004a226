----------------------------- MODULE MCAuthRelay -----------------------------
(* One device that can sign, one that has lights, two challenges in two    *)
(* parts each, signatures in two parts, a queue of one.                    *)
EXTENDS AuthRelay
CONSTANTS pad, keyboard, none, c1, c2
MCDevices == {pad, keyboard}
MCSigners == {pad}
MCChallenges == {c1, c2}
=============================================================================
