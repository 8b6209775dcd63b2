--------------------------- MODULE MCTranslation ---------------------------
(* Control and Expressions in one run: part says which of the two a behaviour *)
(* is of.                                                                     *)
EXTENDS MCControl, MCExpressions

VARIABLE part

NoControl == program = [body |-> <<>>, unroll |-> 0] /\ subject = 0 /\ compiler = "none" /\ written = <<>> /\ outcome = NotRunYet
NoExpression == source = L(0) /\ setting = <<>> /\ declared = <<>> /\ mode = <<>> /\ code = <<>> /\ result = NotRun

TranslationInit ==
  \/ part = "control" /\ ControlInit /\ NoExpression
  \/ part = "expressions" /\ Init /\ NoControl

TranslationNext ==
  \/ part = "control" /\ ControlNext /\ UNCHANGED <<part, vars>>
  \/ part = "expressions" /\ Next /\ UNCHANGED <<part, controlvars>>

TranslationSpec == TranslationInit /\ [][TranslationNext]_<<part, vars, controlvars>>
=============================================================================
