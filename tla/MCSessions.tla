------------------------------ MODULE MCSessions ------------------------------
EXTENDS Sessions, TLC

CONSTANTS alice, bob, admin_role, reader, right, wrong, broken

MCUsers      == {alice, bob}
MCPasswords  == {right, wrong}
MCUnreadable == {Blank, broken}
MCRoles      == {reader, admin_role}

Ask(u, p, rs) == [user |-> u, password |-> p, roles |-> rs]
MCCommands == {Ask(alice, wrong, {reader}), Ask(bob, right, {admin_role}), Ask(bob, Blank, {})}

Recorded(p, rs) == [password |-> p, roles |-> rs]

(* No file yet; a user; a user whose record somebody has mended by hand.   *)
MCFirstFiles ==
    {<<>>, alice :> Recorded(right, {reader}),
     alice :> Recorded(right, {}) @@ bob :> Recorded(broken, {admin_role})}
===============================================================================
