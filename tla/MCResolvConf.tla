---------------------------- MODULE MCResolvConf ----------------------------
(***************************************************************************)
(* Every text of up to four lines of the kinds the parser tells apart: an  *)
(* IPv4 server, a link-local one on an interface that exists, lines that   *)
(* are an error (an interface that does not exist, a zone on IPv4, no      *)
(* address), and lines without a server. The file changes to a few of      *)
(* them, one of which must not be seen half written.                       *)
(***************************************************************************)
EXTENDS ResolvConfProps, TLC

CONSTANTS x4, x6, junk, eth0, gone0

MCScopeId == (eth0 :> 1) @@ (gone0 :> NoScope)

Line(first, rest) == [first |-> first, rest |-> rest]
Word(ip, zone) == [ip |-> ip, zone |-> zone]
Good4 == Line("nameserver", <<Word(x4, NoZone)>>)
Good6 == Line("nameserver", <<Word(x6, eth0), Word(junk, NoZone)>>)
Lines ==
    {Good4, Good6,
     Line("nameserver", <<Word(x6, gone0)>>),
     Line("nameserver", <<Word(x4, eth0)>>),
     Line("nameserver", <<Word(junk, NoZone)>>),
     Line("nameserver", <<>>),
     Line("other", <<Word(x4, NoZone)>>)}

MCText == UNION {[1..n -> Lines] : n \in 0..4}
MCLater == {<<Good4>>, <<Good6, Good4>>, <<Line("nameserver", <<Word(junk, NoZone)>>)>>}
=============================================================================
