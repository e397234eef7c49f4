------------------------------ MODULE MCRebin ------------------------------
(* Two histograms and the tables of real size; one content of the RAM tells  *)
(* every bin from the others, one is nearly full.                            *)
EXTENDS Rebin

\* table1 and table2 of main.c.
Table1(k) == IF k <= 512 THEN k
             ELSE IF k <= 768 THEN 512 + 2 * (k - 512) ELSE 1024 + 4 * (k - 768)
Table2(k) == IF k <= 32 THEN k
             ELSE LET s == (k - 33) \div 16 + 1 IN 2 ^ (s + 4) + (k - 16 - 16 * s) * 2 ^ s
MCTables == [c \in {11, 12} |-> IF c = 11 THEN [n \in 1..1025 |-> Table1(n - 1)]
                                ELSE [n \in 1..129 |-> Table2(n - 1)]]
MCCfgs == {0, 1, 9, 10, 200}
MCRams == [r \in {"ramp", "full"} |->
    [b \in 0..4095 |-> IF r = "ramp" THEN b ELSE 65535 - ((b * b) % 1000)]]
=============================================================================
