--------------------------- MODULE MCScanPipeline ---------------------------
(* Small instances of ScanPipeline.                                        *)
EXTENDS ScanPipeline

MCFiles == {"lib.rs", "token.rs"}
MCContents == {"plain", "risky", "bomb"}
TwoTexts == {"plain", "risky"}
SlowTexts == {"plain", "bomb"}
Digest(c) == CASE c = "plain" -> 1 [] c = "risky" -> 2 [] c = "bomb" -> 3
MCSha256 == [c \in MCContents |-> Digest(c)]
TwoSha256 == [c \in TwoTexts |-> Digest(c)]
SlowSha256 == [c \in SlowTexts |-> Digest(c)]
MCSettings == {"defaults", "custom"}

(* "risky" has a finding of each side of the gate; the custom rules of the *)
(* second settings match "plain". The analysis of "bomb" never answers.    *)
Finds(s, c) == IF c = "risky" THEN {"auth_gap"}
               ELSE IF s = "custom" THEN {"custom_match"} ELSE {}
MCAnalyse == [s \in MCSettings |-> [c \in MCContents |-> Finds(s, c)]]
TwoAnalyse == [s \in MCSettings |-> [c \in TwoTexts |-> Finds(s, c)]]
(* Under the second settings "plain" has findings of two weights.          *)
SlowAnalyse == [s \in MCSettings |-> [c \in SlowTexts |->
                  IF s = "custom" /\ c = "plain" THEN {"unsafe_pattern"} ELSE {}]]

Cmd(s, l, m, n) ==
  [settings |-> s, limited |-> l, exit_code |-> TRUE, min_severity |-> m,
   no_cache |-> n]

(* One developer: cached scans with and without a limit, and a fresh one.  *)
OneUser == {Cmd("defaults", TRUE, "high", FALSE),
            Cmd("custom", FALSE, "high", FALSE),
            Cmd("custom", FALSE, "low", TRUE)}

(* Two processes on one project.                                           *)
TwoUsers == {Cmd("defaults", TRUE, "high", FALSE),
             Cmd("custom", FALSE, "high", FALSE)}

CustomOnly == {Cmd("defaults", FALSE, "high", FALSE),
               Cmd("custom", FALSE, "high", FALSE)}

GateAtHigh == {Cmd("defaults", FALSE, "high", FALSE),
               Cmd("defaults", FALSE, "high", TRUE)}

=============================================================================
