-------------------------- MODULE MCHaproxyService --------------------------
(***************************************************************************)
(* Instances of HaproxyService for TLC.                                    *)
(***************************************************************************)
EXTENDS HaproxyService, TLC

CONSTANTS c1, c2

OneCaller == {c1}
TwoCallers == {c1, c2}
CallerSymmetry == Permutations(TwoCallers)

\* One name, which also arrives with surrounding blanks.
OneKey == {"a"}
OneKeyRaw == {"", "a", " a"}
OneKeyTrim == [n \in OneKeyRaw |-> IF n = " a" THEN "a" ELSE n]

\* Two names, one of which also arrives with surrounding blanks.
TwoKeys == {"a", "A"}
TwoKeysRaw == {"", " a", "a", "A"}
TwoKeysTrim == [n \in TwoKeysRaw |-> IF n = " a" THEN "a" ELSE n]

\* Two names, always trimmed already.
TwoKeysTrimmed == TwoKeys \cup {""}
TwoKeysSame == [n \in TwoKeysTrimmed |-> n]

\* good and better load; busy is valid but HAProxy refuses it.
AllBodies == {"good", "better", "busy", "bad"}

\* Names that differ in case only share their certificate file.
OneKeyFile == [k \in OneKey |-> "a.pem"]
TwoKeysFile == [k \in TwoKeys |-> "a.pem"]

Plain(n, b) == [name |-> n, body |-> b, path |-> "", pem |-> ""]
Inline(n, b, p) == [Plain(n, b) EXCEPT !.pem = p]

OneKeyRequests == {Plain(" a", "good"), Plain("a", "busy"), Plain("a", "bad")}
OneKeyBlocks == {{}, {Plain("a", "better")}}

TwoNames == {Plain("a", "good"), Plain("A", "good")}
TwoKeyRequests == {Plain(" a", "good"), Plain("A", "good")}

TLSRequests == {Inline("a", "good", "p1"), Inline("A", "good", "p2"),
                [Inline("A", "good", "p1") EXCEPT !.path = "/own.pem"],
                [Plain("A", "good") EXCEPT !.path = "/own.pem"]}
NewHost == {{}}
=============================================================================
