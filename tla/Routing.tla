------------------------------ MODULE Routing ------------------------------
(***************************************************************************)
(* The decision what a message is (agent/graph.py classify,                *)
(* agent/intent.py, tools/registry.py).  A message is what the rules look  *)
(* for in it; the model's reply is the route and the skill it names.       *)
(***************************************************************************)
EXTENDS Integers, FiniteSets

TOOLS == {"search_internal_docs", "get_server_status", "create_support_ticket",
          "get_support_ticket", "create_vpn_profile"}
Reads == {"search_internal_docs", "get_server_status", "get_support_ticket"}
NamesRecord(tool) ==
    CASE tool = "create_support_ticket" -> {"ticket"}
      [] tool = "create_vpn_profile" -> {"vpn", "openvpn"}
      [] OTHER -> {}

\* greeting: only a social opener; ticket_ids: how many ticket ids it holds; words:
\* the record words in it; question, addressed: worded as a question, to the
\* assistant; action: its first word that matters changes a system.
Message == [greeting : BOOLEAN, ticket_ids : 0 .. 2, words : SUBSET {"ticket", "vpn", "openvpn"},
            question : BOOLEAN, addressed : BOOLEAN, action : BOOLEAN]

\* What the router model said: unparseable, or a route, a skill (perhaps no tool of
\* the registry) and whether the skill's schema accepts the arguments.
Reply == [parses : BOOLEAN, route : {"knowledge", "tool", "refuse", "other"},
          tool : TOOLS \cup {"unknown"}, valid : BOOLEAN]

Knowledge == [route |-> "knowledge", tool |-> "none"]
Refuse == [route |-> "refuse", tool |-> "none"]
Use(tool) == [route |-> "tool", tool |-> tool]

asks_about_rules(m) == m.question /\ ~ m.addressed
asks_for_unsupported_action(m) == m.action

asks_for_record(tool, m) == NamesRecord(tool) = {} \/ NamesRecord(tool) \cap m.words # {}

reads_with_invalid_arguments(tool, reply) == tool \in Reads /\ ~ reply.valid

\* Only one read-only skill has a trigger, the format of a ticket id.
triggered_skill(m) == m.ticket_ids > 0

_parse_decision(reply) ==
    IF ~ reply.parses THEN Knowledge
    ELSE CASE reply.route = "refuse" -> Refuse
           [] reply.route = "tool" /\ reply.tool \in TOOLS -> Use(reply.tool)
           [] OTHER -> Knowledge

\* The four rules that overrule the model, in their order.
Unnamed(d, m) ==
    IF d.route = "tool" /\ ~ asks_for_record(d.tool, m) THEN Knowledge ELSE d
AboutRules(d, m) ==
    IF d.route = "refuse" /\ asks_about_rules(m) THEN Knowledge ELSE d
Unsupported(d, m) ==
    IF d.route = "tool" /\ d.tool \in Reads /\ asks_for_unsupported_action(m) THEN Refuse ELSE d
Misread(d, reply) ==
    IF d.route = "tool" /\ reads_with_invalid_arguments(d.tool, reply) THEN Knowledge ELSE d

\* Mutant: the misread skill is dropped before anyone asks what the message wants.
OverruleMisreadFirst(m, reply) ==
    Unsupported(AboutRules(Unnamed(Misread(_parse_decision(reply), reply), m), m), m)

\* Mutant: the rule that the message must name the record is gone.
OverruleUnnamed(m, reply) ==
    Misread(Unsupported(AboutRules(_parse_decision(reply), m), m), reply)

Overrule(m, reply) ==
    Misread(Unsupported(AboutRules(Unnamed(_parse_decision(reply), m), m), m), reply)

\* reached is FALSE when the gateway has no model for the router.
classify(m, reached, reply) ==
    CASE m.greeting -> [route |-> "small_talk", tool |-> "none"]
      [] ~ m.greeting /\ triggered_skill(m) -> Use("get_support_ticket")
      [] OTHER -> IF reached THEN Overrule(m, reply) ELSE Knowledge
=============================================================================
