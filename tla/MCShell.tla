------------------------------- MODULE MCShell -------------------------------
(* Lines of each form process_arglist knows, and the programs they start. *)
EXTENDS Shell

MCPrograms == [sleep |-> [io |-> "none", again |-> FALSE],
               echo  |-> [io |-> "write", again |-> FALSE],
               yes   |-> [io |-> "write", again |-> TRUE],
               head  |-> [io |-> "read", again |-> FALSE],
               cat   |-> [io |-> "read", again |-> TRUE]]

MCLines == {<<>>, <<"sleep">>, <<"sleep", "&">>,
            <<"yes", "|", "head">>, <<"nosuch", "|", "cat">>,
            <<"cat", "<", "file">>, <<"echo", ">", "nofile">>, <<"echo", ">>", "file">>}
===============================================================================
