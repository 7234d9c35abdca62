----------------------------- MODULE TdsTokens -----------------------------
(***************************************************************************)
(* The statement callbacks of the TDS response (babelfishpg_tds,           *)
(* tdsresponse.c) as operators on its state t:                             *)
(*   stack   tds_estate->current_stack, the statements begun and not ended *)
(*   offset  tds_estate->error_stack_offset                                *)
(*   mark    markErrorFlag                                                 *)
(*   pend    the DONE token held back until it is known whether more       *)
(*           tokens follow; its fields are the token, TDS_DONE_ERROR,      *)
(*           whether the row count is not 0, and whether NOCOUNT hides it  *)
(*   empty   TdsRequestCtrl->isEmptyResponse                               *)
(*   owed    an ERROR token is on the wire and no DONE has followed it     *)
(*   bare    some DONE that followed an ERROR token had no error flag      *)
(* The last two are history: they are what the client sees.                *)
(***************************************************************************)
EXTENDS Integers

Tokens == {"DONE", "DONEPROC", "DONEINPROC"}
Dones == [token : Tokens, error : BOOLEAN, rows : BOOLEAN, hidden : BOOLEAN]
NoDone == [token |-> "none"]

Idle == [stack |-> 0, offset |-> 0, mark |-> FALSE, pend |-> NoDone,
         empty |-> TRUE, owed |-> FALSE, bare |-> FALSE]

\* SendPendingDone: the held back DONE goes to the wire, unless NOCOUNT hides
\* it and it is not the last token of the response.
SendPendingDone(t, more) ==
    CASE t.pend = NoDone -> t
      [] t.pend # NoDone /\ more /\ t.pend.hidden ->
            [t EXCEPT !.pend = NoDone]
      [] OTHER ->
            [t EXCEPT !.pend = NoDone,
                      !.offset = IF t.pend.error THEN 0 ELSE @,
                      !.bare = @ \/ (t.owed /\ ~t.pend.error),
                      !.owed = FALSE]

\* TdsSendDone: holds back a DONE token.  error is the flag the caller asks
\* for; an ERROR token sent before adds it.
SendDone(t, token, error, rows, hidden) ==
    [SendPendingDone(t, TRUE) EXCEPT
        !.pend = [token |-> token, error |-> error \/ t.mark,
                  rows |-> rows, hidden |-> hidden /\ token = "DONEINPROC"],
        !.mark = FALSE, !.empty = FALSE]

\* As SendError, without marking the DONE token that follows.
SendErrorUnmarked(t) == [SendPendingDone(t, TRUE) EXCEPT !.owed = TRUE]

\* TdsSendError.
SendError(t) == [SendPendingDone(t, TRUE) EXCEPT !.mark = TRUE, !.owed = TRUE]

\* TDSStatementBeginCallback.
StatementBegin(t) == [t EXCEPT !.stack = @ + 1]

\* StatementEnd_Internal.  s describes the statement: silent for statements
\* without a DONE token (those of functions, GOTO, RETURN, a null stmt), proc
\* for EXEC, rows and hidden for the DONE.
StatementEnd(t, s) ==
    LET top == t.stack = 1
        ended == [t EXCEPT !.stack = @ - 1, !.offset = 0]
        status == IF top /\ s.proc /\ ~t.mark THEN SendPendingDone(ended, TRUE)
                                              ELSE ended
        token == IF ~top THEN "DONEINPROC"
                 ELSE IF s.proc THEN "DONEPROC" ELSE "DONE"
    IN  IF s.silent THEN ended
        ELSE SendDone(status, token, FALSE, s.rows, s.hidden)

\* As StatementException, leaving the stack to the level that handles the error.
StatementExceptionOpen(t, s, terminate) ==
    IF terminate THEN [t EXCEPT !.offset = @ + 1]
                 ELSE StatementEnd(t, [s EXCEPT !.rows = FALSE])

\* TDSStatementExceptionCallback.
StatementException(t, s, terminate) ==
    IF terminate THEN [t EXCEPT !.stack = @ - 1, !.offset = @ + 1]
                 ELSE StatementEnd(t, [s EXCEPT !.rows = FALSE])

\* TdsFlush.
Flush(t) == [SendPendingDone(t, FALSE) EXCEPT !.owed = FALSE]
=============================================================================
