----------------------------- MODULE MCFraming -----------------------------
(* What is sent in the runs of Framing. *)
EXTENDS Framing

Msg(known, magic, off, body) ==
    [known |-> known, magic |-> magic, off |-> off, body |-> body]
Good(body) == Msg(TRUE, TRUE, 0, body)

(* Right ones of every length up to one word too long for any limit, and    *)
(* ones with a wrong checksum, command or magic.                            *)
MCMessages == {Good(<<>>), Good(<<3, 2>>), Good(<<1, 2, 2>>), Good(<<1, 2, 1, 2>>),
               Good(<<1, 1, 1, 1, 1>>),
               Msg(TRUE, TRUE, 1, <<>>), Msg(TRUE, TRUE, 1, <<1>>),
               Msg(FALSE, TRUE, 0, <<>>), Msg(TRUE, FALSE, 0, <<>>)}
MCPolicies == {<<0, 3>>, <<1, 5>>}

=============================================================================
