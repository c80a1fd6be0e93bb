------------------------------- MODULE MCStudio -------------------------------
EXTENDS StudioScene

(* Two batches of one item each.                                           *)
OneEach == <<1, 2>>

(* Two OCR models and one of each other engine; the warmup loads OCR.      *)
TwoModels == [ocr |-> {"en", "bn"}, structure |-> {"en"}, vl |-> {"v1"}]
English == <<"ocr", "en">>
=============================================================================
