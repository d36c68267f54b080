---------------------------- MODULE HTTPExchange ----------------------------
(***************************************************************************)
(* What the two ends of one connection to the loopback server may expect,  *)
(* without buffers, events or object lifetimes: the browser asks, requests *)
(* are answered in any order, and the pieces of the responses arrive in    *)
(* the order of the requests, each after its request was answered, none    *)
(* twice and none left out.  (HTTP requires the order, as the comment in   *)
(* OIDLoopbackHTTPServer.m:213-217 says.)                                  *)
(***************************************************************************)
EXTENDS Naturals, Sequences

CONSTANT ResponseLength  \* pieces of a response

VARIABLES asked, answered, received, open

exchangeVars == <<asked, answered, received, open>>

\* The i-th piece the browser receives: of which request, and which one of it.
PieceAt(i) ==
  <<((i - 1) \div ResponseLength) + 1, ((i - 1) % ResponseLength) + 1>>

ExchangeInit ==
  /\ asked = 0 /\ answered = {}
  /\ received = <<>>
  /\ open = TRUE

\* One step of the server may take a request in, answer it and send some of it.
ExchangeStep ==
  /\ asked' \in {asked, asked + 1}
  /\ answered \subseteq answered' /\ answered' \subseteq 1 .. asked'
  /\ Len(received') >= Len(received)
  /\ SubSeq(received', 1, Len(received)) = received
  /\ \A i \in Len(received) + 1 .. Len(received') :
       received'[i] = PieceAt(i) /\ PieceAt(i)[1] \in answered'
  /\ open' => open
  /\ ~ open => UNCHANGED <<asked, received>>

ExchangeSpec == ExchangeInit /\ [][ExchangeStep]_exchangeVars
=============================================================================
