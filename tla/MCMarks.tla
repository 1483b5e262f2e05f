------------------------------- MODULE MCMarks -------------------------------
(* Instances of Marks for TLC: two periods; a year, a term and a period that is  *)
(* not valid to ask for; sheets with a mark, with the same subject twice, with a *)
(* subject that is not known and with a row that is not valid.                   *)
EXTENDS Marks

CONSTANTS f1, d1, r1

MCPeriod(y, t, i) == [academicYear |-> y, term |-> t, importance |-> i]
Autumn == MCPeriod(2021, {1}, {"exam"})
Spring == MCPeriod(2021, {2}, {"exam"})

MCRanges == {<<>>, <<Autumn>>, <<Autumn, Spring>>}
MCAsked  == {Autumn, MCPeriod(2021, {1}, {}), MCPeriod(2021, {}, {}), MCPeriod(2021, {5}, {})}

MCMark(s) == [subject |-> s, valid |-> TRUE]
MCSheets  == {<<MCMark("maths")>>, <<MCMark("art"), MCMark("art"), MCMark("maths")>>,
              <<MCMark("latin")>>, <<MCMark("maths"), [subject |-> "art", valid |-> FALSE]>>}
=============================================================================
