----------------------------- MODULE MCBaseline -----------------------------
(* Two measurements, one of which can be corrected and bound to either of two  *)
(* certificates of one current meter that meet at the instant it was taken, a   *)
(* section and a field record; the first certificate can be corrected to       *)
(* another period and to another device.                                       *)
EXTENDS Baseline

Measurement(id, content, at, level, decision, bound) ==
  [id |-> id, type |-> "rating_measurement", content |-> content, at |-> at,
   level |-> level, discharge |-> 1, decision |-> decision, bound |-> bound]
Record(id, type, bound) ==
  [id |-> id, type |-> type, content |-> id, at |-> 2, level |-> 0,
   discharge |-> 0, decision |-> "included", bound |-> bound]

First == Measurement("m1", "a", 2, 1, "included", {"first", "gauge"})
Second == Measurement("m2", "c", 1, 2, "included", {"first", "gauge"})
Section == Record("s", "cross_section", {"survey"})
Field == Record("f", "field_record", {})

Evidences ==
  {First, Second, Section, Field,
   [First EXCEPT !.bound = {"second", "gauge"}],
   [First EXCEPT !.content = "b", !.decision = "pending"],
   [First EXCEPT !.level = 2, !.bound = {"gauge"}],
   [Field EXCEPT !.bound = {"survey"}]}
BatchesSent == {{First, Second}, {Section, Field}, {First, [Second EXCEPT !.content = "a"]}}
Judged == {[evidence |-> "m1", decision |-> "included"],
           [evidence |-> "m1", decision |-> "excluded"],
           [evidence |-> "s", decision |-> "pending_explanation"]}

Certificate(id, instrument, kind, from, until) ==
  [id |-> id, instrument |-> instrument, kind |-> kind, certificate |-> id,
   from |-> from, until |-> until, useFrom |-> from, useUntil |-> until]
FirstCertificate == Certificate("first", "meter", "current_meter", 1, 2)
Certificates ==
  {FirstCertificate,
   [FirstCertificate EXCEPT !.until = 1, !.useUntil = 1],
   [FirstCertificate EXCEPT !.instrument = "spare"],
   [FirstCertificate EXCEPT !.until = 1],
   Certificate("second", "meter", "current_meter", 2, 3),
   Certificate("gauge", "gauge", "water_level_gauge", 1, 3),
   Certificate("survey", "level", "survey_equipment", 1, 3)}
=============================================================================
