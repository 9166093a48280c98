------------------------------- MODULE MCShell -------------------------------
EXTENDS Shell

Characters == {"a", " ", "&", "|", ">", "\"", "'", "\\", "#", "nl"}

(* Every text of up to MaxText characters, and the newline. *)
CONSTANT MaxText
Texts == {t \o << "nl" >> : t \in UNION {[1..n -> Characters] : n \in 0..MaxText}}

(* Lines of commands with operators between them. *)
Ops == {<< "&", "&" >>, << "|", "|" >>, << "|" >>, << "&" >>, << ">" >>}
Names == {"a", "cd", "quit"}
Lines ==
  {<< n[1] >> \o o[1] \o << n[2] >> \o o[2] \o << n[3], "nl" >> :
     n \in [1..3 -> Names], o \in [1..2 -> Ops]}
LongLines ==
  {<< "a" >> \o o[1] \o << "a" >> \o o[2] \o << "a" >> \o o[3] \o << "a", "nl" >> :
     o \in [1..3 -> Ops]}

(* Jobs beside the shell, and a quote over two lines. *)
Others == {
  << "a", "|", "a", "&", "nl", "a", "|", "a", "nl", "a" >>,
  << "a", "&", "&", "a", "&", "nl", "a", "|", "a", "|", "a", "nl" >>,
  << "a", "&", "nl", "a", "&", "nl", "a", "|", "a", "nl" >>,
  << "a", "'", "nl", "\"", "'", "nl", "a" >> }

(* Chains of && and || alone. *)
Chains ==
  {<< "a" >> \o o[1] \o << "a" >> \o o[2] \o << "a", "nl" >> :
     o \in [1..2 -> {<< "&", "&" >>, << "|", "|" >>}]}

MCInputs == Texts \cup Lines \cup LongLines \cup Others
==============================================================================
