---------------------------- MODULE MCUploadForm ----------------------------
(* Instances of UploadForm for TLC. *)
EXTENDS UploadForm

CONSTANTS a, b, doc

\* a carries a creation time late on day 1, b only a year.
Named == [f \in Files |-> IF f = a THEN 2 ELSE 1]
Tagged ==
  [f \in Files |->
    CASE f = a -> [creation |-> 19, common |-> NoTag, year |-> NoTag]
      [] f = b -> [creation |-> NoTag, common |-> NoTag, year |-> 1]
      [] OTHER -> [creation |-> NoTag, common |-> NoTag, year |-> NoTag]]

=============================================================================
