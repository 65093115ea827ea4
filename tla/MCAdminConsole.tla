--------------------------- MODULE MCAdminConsole ---------------------------
(* Small instances of AdminConsole for TLC. *)
EXTENDS AdminConsole

CONSTANTS d1, d2, joe

MCSlugs == {<<"a", "b">>, <<"b", "a">>}
MCThresholds == { [reject |-> 9, add_header |-> 5, greylist |-> 2] }
MCEmails == {<<joe, d1>>, <<joe, d2>>}
=============================================================================
