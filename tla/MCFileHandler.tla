--------------------------- MODULE MCFileHandler ----------------------------
(***************************************************************************)
(* Instances of FileHandler for TLC.                                       *)
(***************************************************************************)
EXTENDS FileHandler

CONSTANTS d1, d2, dc1, dc2

\* A file of one full part, and one that ends within its second part.
MCLength == [d \in Downloads |-> IF d = d1 THEN 2 ELSE 3]

\* d1 is asked of the DC the authorization is transferred to, d2 of the
\* working one, whose file session uploads use.
MCDcNum == [d \in Downloads |-> IF d = d1 THEN dc2 ELSE dc1]
=============================================================================
