--------------------------- MODULE MCAsyncSubmit ---------------------------
(* A prompt submit thread with and without trouble, and a slow one. *)
EXTENDS AsyncSubmit

Prompt == [prompt |-> TRUE, viewsFail |-> FALSE, hidesFirst |-> TRUE, mayLose |-> TRUE]
PromptViewsFail == [Prompt EXCEPT !.viewsFail = TRUE, !.mayLose = FALSE]
Stops == [Prompt EXCEPT !.hidesFirst = FALSE]
Slow == [Prompt EXCEPT !.prompt = FALSE]

MCSetups == {Prompt, PromptViewsFail, Stops, Slow}
=============================================================================
