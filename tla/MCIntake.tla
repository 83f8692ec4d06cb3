------------------------------ MODULE MCIntake ------------------------------
(* A small instance of Intake: groups that mix firing, resolved and        *)
(* malformed alerts, two of them about one failure.                        *)
EXTENDS Intake

Raw(status, name, service) ==
  [status |-> status, alertname |-> name, fingerprint |-> "fp", service |-> service,
   trace_id |-> "trace", summary |-> "panic"]

A1 == Raw("firing", "a1", "svc1")
A2 == Raw("firing", "a2", "svc1")
B == Raw("firing", "b", "svc2")
Resolved == [Raw("resolved", "r", "svc2") EXCEPT !.trace_id = Absent]
Without(f) == [Raw("firing", "m", "svc1") EXCEPT ![f] = Absent]

MCPayloads ==
  { <<>>, <<Resolved, Without("summary")>>,
    <<A1, A2>>, <<B, A1>>, <<Resolved, A2, Without("trace_id"), B>>,
    <<Without("alertname"), A1, Without("fingerprint"), Without("service")>> }
=============================================================================
