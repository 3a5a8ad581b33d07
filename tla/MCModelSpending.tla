--------------------------- MODULE MCModelSpending ---------------------------
(***************************************************************************)
(* One or two text calls of one run, and an image call.                    *)
(***************************************************************************)
EXTENDS ModelSpending

CONSTANTS t1, t2, g1, r1

OneRun == [c \in Texts |-> r1]
Ones == [c \in Texts |-> 1]
Twos == [c \in Texts |-> 2]
Nothing == {}
Primary == {"primary"}

\* a paid primary model of price 1, admitted at 2, and a verified local fallback
LocalFallback == [t \in Targets |-> IF t = "primary" THEN 1 ELSE 0]
\* a paid fallback dearer than the admission price
DearFallback == [t \in Targets |-> IF t = "primary" THEN 1 ELSE 3]
=============================================================================
