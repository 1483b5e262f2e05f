--------------------------- MODULE MCEngageClient ---------------------------
(* The answers of engage for TLC: lists of up to two years; pages with a name *)
(* and years; rows of a marksheet, and everything short that may follow a     *)
(* percentage.                                                                *)
EXTENDS EngageClient

MCYearLists == {<<>>, <<2021>>, <<2022>>, <<2021, 2022>>, <<2022, 2021>>}

YearWord(white, digits) == <<"Y", "e", "a", "r", white>> \o digits

Names == {<<"b">>, <<"b", "o">>, <<"a", "b">>, <<"b", "a">>, <<"a">>, <<"b", "LF">>, <<>>}
Tails == {<<>>, YearWord(" ", <<"1", "1">>), YearWord("TAB", <<"9">>),
          YearWord(" ", <<"9">>) \o <<"o">> \o YearWord(" ", <<"1", "0">>)}
Pages == {Open \o n \o Close \o y : n \in Names, y \in Tails}
         \cup {YearWord(" ", <<"7">>) \o Open \o <<"b">> \o Close}

Percentage == Escape \o <<"8", "5">>
Rest(S, n) == {Percentage \o t : t \in BoundedSeq(S, n)}
MarkRow    == Percentage \o <<",", " ", "M", ",", " ", "K", "<">>
Rows       == Rest({",", "<", "k"}, 4) \cup {MarkRow, MarkRow \o MarkRow}
              \cup BoundedSeq({"\\", "t", "1"}, 3)

MCSheets == {s \in Pages \cup Rows : s # <<>>}
=============================================================================
