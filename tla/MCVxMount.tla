----------------------------- MODULE MCVxMount -----------------------------
(* Values of the constants of VxMount. *)
EXTENDS VxMount

CONSTANTS location, media, resize

Sub_(k, s) == [key |-> k, sig |-> s]

\* One subscription changes, one goes and comes; a list returned again keeps both.
ChangingConfigs == {<<Sub_(media, 1), Sub_(location, 1)>>, <<Sub_(media, 2)>>}
\* One comes and goes, one changes.
TwoConfigs == {<<Sub_(media, 1), Sub_(location, 1)>>, <<Sub_(location, 2)>>}
\* Three subscriptions under one mapper.
SharedConfigs == {<<Sub_(location, 1), Sub_(media, 1), Sub_(resize, 1)>>}

NoConfigs == {<<>>}

SomePrograms == {<<"execute">>, <<"delay">>}
AllPrograms == {<<"message">>, <<"delay">>, <<"execute">>}
MessagePrograms == {<<>>, <<"message">>}

\* What the theorems about callbacks take from the lists.
ASSUME NamedListeners == KeysAreIdentities
=============================================================================
