---------------------------- MODULE ManagedBlock ----------------------------
(***************************************************************************)
(* The managed block of the HAProxy configuration file                     *)
(* (internal/services/haproxycfg/global.go) and its reader                 *)
(* (loadConfigurationsFromFileLocked of haproxy.go), line by line.         *)
(*                                                                         *)
(* A file is the sequence of lines that strings.Split(content, "\n")       *)
(* gives, so a final newline is a last blank line.  A line is what its     *)
(* trimmed text says it is; a configuration is the comment that holds it   *)
(* and the sections that are rendered from it.                             *)
(***************************************************************************)
EXTENDS Integers, FiniteSets, SequencesExt

CONSTANTS
    Names,       \* configuration names, ordered as sort.Slice orders them
    Bodies,      \* the rest of a configuration
    UserLines,   \* lines written by the operator of the host
    MaxLines,    \* bound on the files a host starts with
    MaxCut,      \* bound on the files whose write can be cut short
    StrayStart   \* the host's file may have a start marker without an end

ASSUME NamesAssumption == Names \subseteq Int /\ MaxLines \in Nat /\ StrayStart \in BOOLEAN

Configs == [name : Names, body : Bodies]
ConfigLists ==
    {l \in SUBSET Configs : IsFiniteSet(l) /\ \A c, d \in l : c.name = d.name => c = d}

Line(kind, of) == [kind |-> kind, of |-> of]
NoConfig == [name |-> 0, body |-> ""]
ManagedBlockStart == Line("start", NoConfig)
ManagedBlockEnd == Line("end", NoConfig)
Blank == Line("blank", NoConfig)
Junk == Line("corrupt", NoConfig)
ManagedConfigLine(c) == Line("config", c)
Section(c) == Line("section", c)
UserLine(u) == Line("user", [name |-> 0, body |-> u])

-----------------------------------------------------------------------------
(* global.go; 0 stands for the index -1 of the code *)

StartOf(lines) == SelectInSeq(lines, LAMBDA l : l.kind = "start")

IsEnd(line) == line.kind = "end"
FirstEnd(lines) == SelectInSeq(lines, IsEnd)
EndOf(lines) ==
    IF StartOf(lines) = 0 THEN 0 ELSE SelectInSubSeq(lines, StartOf(lines), Len(lines), IsEnd)

\* start < end is part of the code's test; end is 0 or follows start.
HasBlock(lines) == StartOf(lines) # 0 /\ EndOf(lines) # 0 /\ StartOf(lines) < EndOf(lines)

Rank(list, c) == Cardinality({d \in list : d.name <= c.name})
Sorted(list) == [n \in 1 .. Cardinality(list) |-> CHOOSE c \in list : Rank(list, c) = n]

RenderManagedBlock(list) ==
    LET sorted == Sorted(list) IN
    <<ManagedBlockStart>>
      \o [i \in DOMAIN sorted |-> ManagedConfigLine(sorted[i])]
      \o [i \in DOMAIN sorted |-> Section(sorted[i])]
      \o <<ManagedBlockEnd>>

\* strings.TrimRight(base, "\n"): the empty text is the empty sequence here.
TrimRight(lines) ==
    SubSeq(lines, 1, SelectLastInSeq(lines, LAMBDA l : l.kind # "blank"))

KeepsOldEnd(lines, block, from) ==
    SubSeq(lines, 1, StartOf(lines) - 1) \o block \o SubSeq(lines, from - 1, Len(lines))
DropsTail(lines, block, from) == SubSeq(lines, 1, StartOf(lines) - 1) \o block
Replace(lines, block, from) ==
    SubSeq(lines, 1, StartOf(lines) - 1) \o block \o SubSeq(lines, from, Len(lines))

MergeManagedBlock(lines, list) ==
    LET block == RenderManagedBlock(list)
        trimmed == TrimRight(lines)
    IN  IF HasBlock(lines)
          THEN Replace(lines, block, EndOf(lines) + 1)
          ELSE IF trimmed = <<>>
                 THEN block \o <<Blank>>
                 ELSE trimmed \o <<Blank>> \o block \o <<Blank>>

\* loadConfigurationsFromFileLocked: the lines of the block that hold a
\* configuration; one that cannot be decoded fails the whole load.
BlockLines(lines) ==
    IF HasBlock(lines) THEN SubSeq(lines, StartOf(lines) + 1, EndOf(lines) - 1) ELSE <<>>

LoadFails(lines) == \E i \in DOMAIN BlockLines(lines) : BlockLines(lines)[i].kind = "corrupt"

\* The lines of some kinds, in order.
OfKinds(lines, kinds) ==
    LET taken[n \in 0 .. Len(lines)] ==
          IF n = 0 THEN <<>>
          ELSE IF lines[n].kind \in kinds THEN Append(taken[n - 1], lines[n])
          ELSE taken[n - 1]
    IN  taken[Len(lines)]

LoadConfigurations(lines) == OfKinds(BlockLines(lines), {"config"})

-----------------------------------------------------------------------------
(* The file over time *)

VARIABLES
    file,      \* the lines of the HAProxy configuration file
    written,   \* ghost: the list last written with success
    streak     \* ghost: successful writes since the start or the last cut, to 2

vars == <<file, written, streak>>

HostLines ==
    {ManagedBlockStart, ManagedBlockEnd, Blank}
      \cup {UserLine(u) : u \in UserLines} \cup {ManagedConfigLine(c) : c \in Configs}

Init ==
    /\ \E n \in 1 .. MaxLines : file \in [1 .. n -> HostLines]
    /\ StrayStart \/ StartOf(file) = 0 \/ HasBlock(file)
    /\ written = {} /\ streak = 0

\* os.WriteFile of the merged content.
Write(list) ==
    /\ file' = MergeManagedBlock(file, list)
    /\ written' = list
    /\ streak' = IF streak = 2 THEN 2 ELSE streak + 1

\* The write stops after n whole lines: right after the newline, inside the
\* next line, or at its end.  Part of a configuration cannot be decoded, part
\* of any other line is just text.
Remains(lines, n) ==
    {SubSeq(lines, 1, n) \o <<rest>> :
        rest \in {Blank, Line("user", NoConfig), lines[n + 1]}
                   \cup IF lines[n + 1].kind = "config" THEN {Junk} ELSE {}}

CutWrite(list) ==
    LET lines == MergeManagedBlock(file, list) IN
    /\ Len(lines) <= MaxCut
    /\ \E n \in 0 .. Len(lines) - 1 : file' \in Remains(lines, n)
    /\ streak' = 0
    /\ UNCHANGED written

Next == \E list \in ConfigLists : Write(list) \/ CutWrite(list)

Spec == Init /\ [][Next]_vars

-----------------------------------------------------------------------------
(* Correctness *)

Decodes == ~LoadFails(file) /\ {l.of : l \in ToSet(LoadConfigurations(file))} = written
              /\ Len(LoadConfigurations(file)) = Len(Sorted(written))

\* No start marker stands without an end: the file has its block or none.
Intact(lines) == StartOf(lines) = 0 \/ HasBlock(lines)

\* The service reads back from the file the very list it wrote, each
\* configuration once, whatever else was in a file with intact markers.
ReadsBack == [][streak' > 0 /\ Intact(file) => Decodes']_vars

\* After writes that were cut short anywhere, two successful writes are enough
\* for the file to hold the list again.
SecondWriteHeals == streak > 1 => Decodes

\* Writing a list twice leaves every line of the file as the first write left
\* it, blank lines included: the file does not grow with the reloads.
RewriteIsStable ==
    [][streak' > 0 /\ Intact(file) => MergeManagedBlock(file, written)' = file']_vars

Text(lines) == OfKinds(lines, {"start", "end", "corrupt", "config", "section", "user"})
Outside(lines) ==
    IF HasBlock(lines)
      THEN SubSeq(lines, 1, StartOf(lines) - 1) \o SubSeq(lines, EndOf(lines) + 1, Len(lines))
      ELSE lines

\* A successful write keeps, in order, every line outside the managed block.
KeepsHostLines ==
    [][streak' > 0 /\ Intact(file) => Text(Outside(file')) = Text(Outside(file))]_vars
=============================================================================
