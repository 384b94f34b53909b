------------------------------- MODULE MCWebForms -------------------------------
(* The forms of the consoles and the account of a visitor share no state that  *)
(* either depends on: each behaviour exercises one of them.                    *)
EXTENDS ConsoleForms, ConsoleAccount

VARIABLE focus

WebFormsInit ==
    /\ FormsInit /\ AccountInit
    /\ \/ focus = "forms" /\ setup = [theme |-> "default", email |-> TRUE, turnstile |-> TRUE,
                                       oauth |-> FALSE]
       \/ focus = "account" /\ sheet = [theme |-> "default", entity |-> "newuser", type |-> 0]

WebFormsNext ==
    \/ focus = "forms" /\ FormsNext /\ UNCHANGED <<accountVars, focus>>
    \/ focus = "account" /\ AccountNext /\ UNCHANGED <<formVars, focus>>

WebFormsSpec == WebFormsInit /\ [][WebFormsNext]_<<formVars, accountVars, focus>>

\* Every variable of the two keeps its type, and a guarded page shows for a visitor
\* who may see it (PrivateRoute, AuthGuard, AuthWrapper).
WebFormsTypeOK == FormTypeOK /\ AccountTypeOK

\* What is busy waits for a call, and a form that locks itself sends one save at a time
\* (loading of the default and air themes, isSubmitting of Formik in berry).
BusyHasACall == FormSpinner /\ OneSaveAtATime /\ AccountSpinner
=================================================================================
