---------------------------- MODULE MCCaseAnalysis ----------------------------
(* CaseAnalysis on a small instance for TLC. *)
EXTENDS CaseAnalysis, TLC

CONSTANTS k1, k2, k3

Message(speaker, time, spans, triggers) ==
  [speaker_external_id |-> speaker, time |-> time, spans |-> spans,
   triggers |-> triggers, blank |-> FALSE, long |-> FALSE]

At(instant) == [at |-> instant, aware |-> TRUE]
Span(start, end, label) == [start |-> start, end |-> end, label |-> label]
Match(rule, start, end) == [rule |-> rule, start |-> start, end |-> end]

(* k1: three windows of two messages, three speakers, out of order and with *)
(* equal times, a rule's match under a name, a blank and a long message.    *)
(* k2: no times, a handle right after an e-mail address and a place that    *)
(* overlaps it.  k3: times that cannot be compared.                         *)
MCRaw ==
     k1 :> << Message("b", At(5), {}, {Match("secret_request", 0, 5)}),
              [Message("a", At(3), {}, {}) EXCEPT !.blank = TRUE],
              Message("c", At(3), {Span(0, 4, "PERSON")},
                      {Match("threat_phrase", 2, 9), Match("image_request", 5, 9)}),
              Message("a", At(9), {}, {Match("secret_request", 1, 2)}),
              [Message("c", At(9), {}, {}) EXCEPT !.long = TRUE] >>
  @@ k2 :> << Message("a", None,
                      {Span(0, 7, "EMAIL"), Span(7, 13, "HANDLE"),
                       Span(12, 20, "LOCATION")},
                      {Match("threat_phrase", 21, 30)}) >>
  @@ k3 :> << Message("a", At(1), {}, {}),
              Message("a", [at |-> 2, aware |-> FALSE], {}, {}) >>

(* A calm window and a risky one.                                           *)
MCScorePairs == {[s_g |-> 10, s_cb |-> 20], [s_g |-> 100, s_cb |-> 100]}

(* k3 is refused by its first step, which no other step can tell: it takes  *)
(* that step first.                                                         *)
MCNext == Next /\ (prep[k3].pc = "idle" => prep'[k3].pc # "idle")

MCSpec == Init /\ [][MCNext]_vars
===============================================================================
