------------------------------ MODULE MCShell ------------------------------
(* An instance of Shell for TLC. *)
EXTENDS Shell

cat == execcmd(<<"cat">>)
echo == execcmd(<<"echo", "x">>)
grind == execcmd(<<"grind">>)
From(cmd) == redircmd(cmd, "<", "f", 0)
Into(cmd) == redircmd(cmd, ">", "f", 1)

MCCommands ==
  { pipecmd(echo, pipecmd(cat, cat)),
    pipecmd(echo, pipecmd(cat, echo)),
    pipecmd(From(cat), grind),
    backcmd(pipecmd(cat, grind)),
    pipecmd(Into(echo), From(cat)),
    listcmd(backcmd(echo), listcmd(cat, echo)),
    backcmd(backcmd(pipecmd(echo, cat))),
    listcmd(cat, listcmd(cat, listcmd(cat, listcmd(cat, listcmd(cat, cat))))),
    redircmd(listcmd(echo, cat), "+", "f", 1),
    pipecmd(listcmd(echo, echo), cat),
    pipecmd(cat, backcmd(cat)),
    pipecmd(echo, echo),
    pipecmd(echo, execcmd(<<"none">>)),
    grind,
    execcmd(<<"cd", "f">>) }

MCBadLines ==
  { <<"cat", "|", "(", "echo">>, <<"cat", ")">>, <<"echo", ">">>, <<"cat", "&", "echo">>,
    <<"echo", "x", "x">>, <<"(", "cat", ")", "(", "echo", ")">> }
=============================================================================
