-------------------------- MODULE MCScriptSession --------------------------
EXTENDS ScriptSession

Eth(n) == <<"eth", n>>
Ext(n) == <<"ext", n>>
Tron(n) == <<"tron", n>>

\* Contracts of another owner: a UUPS proxy and a beacon, with their
\* implementation.
Foreigners ==
  [a \in {Ext(n) : n \in 1..3} |->
     CASE a = Ext(1) -> Blank("v1")
       [] a = Ext(2) -> [Blank("uups") EXCEPT !.impl = Ext(1)]
       [] OTHER -> [Blank("beacon") EXCEPT !.impl = Ext(1)]]

\* A transparent proxy of version 4 that was adopted.
Legacy ==
  [a \in {Tron(n) : n \in 90..92} |->
     CASE a = Tron(90) -> Blank("v1")
       [] a = Tron(91) -> Blank("oldAdmin")
       [] OTHER -> [Blank("transparent") EXCEPT !.impl = Tron(90), !.admin = Tron(91)]]

\* A UUPS proxy of implementation n and a beacon, adopted, and an
\* implementation of another owner.
Adopted(n) ==
  [a \in {Tron(i) : i \in 90..93} \cup {Ext(1)} |->
     CASE a = Tron(90) -> Blank("v2")
       [] a = Tron(92) -> [Blank("uups") EXCEPT !.impl = Tron(n)]
       [] a = Tron(93) -> [Blank("beacon") EXCEPT !.impl = Tron(91)]
       [] OTHER -> Blank("v1")]

Start(contracts, first, spent, acted) ==
  [real |-> contracts,
   map |-> [p \in {Eth(a[2]) : a \in {b \in DOMAIN contracts : b[1] = "tron"}} |-> Tron(p[2])],
   nonce |-> first, edits |-> spent, foreign |-> acted]

\* Three transactions are left with the directory as it is, or fewer with
\* edits of the directory or with an upgrade by another owner.
MCExisting ==
  {Start(Foreigners, 0, 2, 1), Start(Legacy, 2, 0, 1), Start(Adopted(90), 1, 2, 1)}
    \cup {Start(Adopted(90), 2, 1, 0), Start(Adopted(91), 2, 2, 0)}
    \cup {Start(contracts, 1, 1, 1) : contracts \in {Foreigners, Legacy}}
    \cup {Start(contracts, 1, 2, 0) : contracts \in {Foreigners, Legacy}}

MCPayloads ==
  {Call("setRef", Eth(1)), Call("setRef", Eth(90)), Call("setNum", Eth(1)), Call("setNum", <<"num", 1>>)}
MCArguments == {NoAddress, Eth(1)}

Job(kind, upgrade, skipped, reference, libs) ==
  [op |-> kind, upgrade |-> upgrade, skipAll |-> skipped = "all", skipStorage |-> skipped = "storage",
   reference |-> reference, libs |-> libs]

MCJobs ==
  {Job("deploy", FALSE, "nothing", FALSE, "none"), Job("deploy", FALSE, "nothing", FALSE, "given"),
   Job("deploy", FALSE, "all", FALSE, "none"),
   Job("deploy", TRUE, "nothing", TRUE, "given"), Job("deploy", TRUE, "nothing", TRUE, "none"),
   Job("deploy", TRUE, "nothing", FALSE, "none"), Job("validate", TRUE, "storage", FALSE, "none")}
============================================================================
