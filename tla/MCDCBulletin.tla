---------------------------- MODULE MCDCBulletin ----------------------------
(***************************************************************************)
(* Small instances of DCBulletin: bulletins with a header of one line, in  *)
(* a buffer that holds one bulletin and a bit, so that the second bulletin *)
(* lies across its end.                                                    *)
(***************************************************************************)
EXTENDS DCBulletin

Eol == <<Cr, Cr, Lf>>
Wmo == <<Soh>> \o Eol \o <<"x">> \o Eol \o <<Etx>>
\* With an empty line, a ^C in the header and a third CR.
WmoOdd == <<Soh>> \o Eol \o Eol \o <<Etx, Cr>> \o Eol \o <<Etx>>
Afos == <<Z, C, Z, C, N, "x", N, N, N, N>>
\* With a line end that is followed by text.
AfosText == <<Z, C, Z, C, N>> \o Eol \o <<"x", N, N, N, N>>

\* What may lie before a bulletin: none of it, or the beginning of a header.
Junk == {<<>>, <<"x">>, <<Z>>, <<Soh, Cr, "x">>, <<Cr, Lf, Z, C>>,
         <<Soh, Cr>>, <<Soh, Soh>>}

\* After a bulletin, text without end: more than the buffer holds.
Endless == Wmo \o Wmo \o [i \in 1 .. Size |-> "x"]

MCFeeds ==
    {j \o Wmo \o Afos : j \in Junk}
    \cup {Wmo \o j \o WmoOdd : j \in Junk}
    \cup {Afos \o <<Z, C, Z>> \o Wmo, AfosText \o Afos, Endless}

\* An AFOS bulletin whose last line is NNNN, and another one after it.
AfosLine == <<Z, C, Z, C, "x">> \o Eol \o <<N, N, N, N>>
AfosFeeds == {AfosLine \o Afos}

\* A first bulletin longer than the buffer.
LongFeeds == {<<Soh>> \o Eol \o [i \in 1 .. Size |-> "x"] \o Eol \o <<Etx>>}

=============================================================================
