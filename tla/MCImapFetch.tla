---------------------------- MODULE MCImapFetch ----------------------------
(* Batches of up to three messages over three UIDs, in any order, with runs, *)
(* gaps and repeated UIDs; bodies that look like the protocol; names of up  *)
(* to two components with characters every encoding step treats apart.      *)
EXTENDS ImapFetch

MCUids == {3, 4, 9}
MCBatches == UNION {[1 .. n -> MCUids] : n \in 0 .. 3}
MCUnasked == {5}

\* A FETCH line of its own, the end of a literal, nothing, and plain text.
MCBody == [u \in MCUids \cup MCUnasked |->
  CASE u = 3 -> <<RP, CR, LF, STAR, SP, Number(1), SP, Keyword.fetch, SP, LP>> \o UidItem(9)
                  \o <<SP, Keyword.body, SP, QT, 97, QT, RP, CR, LF>>
    [] u = 4 -> <<97, QT, CR, LF, LB, Number(2), RB>>
    [] u = 5 -> <<>>
    [] OTHER -> <<97, LF, BS>>]

MCMailbox == [uid : {3, 12}, words : {<<>>, <<1021>>, <<1025, 1021>>, <<1031, 1030>>, <<1031, 1021, 1030>>}, size : {7}]

Characters == {97, AMP, QT, BS, RP, SLASH, DASH, 233, 26085, 128512}
Words(S) == UNION {[1 .. n -> S] : n \in 1 .. 2}
MCFolders ==
  UNION {[parts : {<<w>> : w \in Words(Characters \ {d})}
                    \cup {<<w, x>> : w \in Words(Characters \ {d}), x \in {<<97>>, <<233>>, <<128512>>}},
          delimiter : {d}, selectable : BOOLEAN] : d \in {SLASH, BS}}
  \cup [parts : {<<w>> : w \in Words(Characters)}, delimiter : {0}, selectable : {TRUE}]
=============================================================================
