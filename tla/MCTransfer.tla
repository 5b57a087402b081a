---- MODULE MCTransfer ----
(* A file of two chunks: desktop storage, and browser storage with a large file whose manifest *)
(* carries no chunk hashes or with a small one whose manifest does.                            *)
EXTENDS Transfer

TwoChunks == 1..2
Desktop == [desktop |-> TRUE, large |-> FALSE, hashes |-> TRUE]
Browser == [desktop |-> FALSE, large |-> TRUE, hashes |-> FALSE]
BrowserHashed == [desktop |-> FALSE, large |-> FALSE, hashes |-> TRUE]
ThreeSetups == {Desktop, Browser, BrowserHashed}
====
