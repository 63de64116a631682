----------------------------- MODULE ActionTools -----------------------------
(***************************************************************************)
(* The curated tools whose arguments choose one of several actions         *)
(* (src/src/commands/registry/families).  Their MCP arguments are flat:    *)
(* the choice, the arguments every action takes, and optional ones.        *)
(* toInput picks those of the action and throws when one is missing.       *)
(***************************************************************************)
EXTENDS Sequences

Needs(args) == [needs |-> args, takes |-> {}]
SameKeys == [a \in {} |-> ""]

\* choice: the argument that chooses.  always: required of every call.  optional: the
\* other declared arguments.  actions: what toInput needs, and what it takes if given.
\* renamed: the key in the input of an argument that changes its name.  secrets:
\* WRITE_POLICY's secretArgs.
Tool(choice, always, optional, actions, renamed, secrets) ==
  [choice |-> choice, always |-> always, optional |-> optional, actions |-> actions,
   renamed |-> renamed, secrets |-> secrets]

Action(always, optional, actions) ==
  Tool("action", always, optional, actions, SameKeys, <<>>)

SwmGroup == Tool("action", {}, {"idx", "name", "password", "mac"},
  [setWithPassword |-> Needs({"idx", "name", "password"}),
   setNoPassword |-> Needs({"idx", "name"}),
   show |-> Needs({}),
   add |-> Needs({"idx", "mac"}),
   delete |-> Needs({"idx", "mac"})], SameKeys, <<"password">>)

SwmProfile == Action({}, {"mac"},
  [a \in {"add", "delete", "show", "enableAll", "disableAll"} |->
     Needs(IF a = "show" THEN {} ELSE {"mac"})])

SwmDetail == Tool("action", {},
  {"mac", "comment", "name", "password", "configIndex", "port", "flag", "schedule1",
   "schedule2", "description", "direction", "enabled", "limit"},
  [comment |-> Needs({"mac", "comment"}),
   name |-> Needs({"mac", "name"}),
   passwd |-> Needs({"mac", "password"}),
   config |-> Needs({"mac", "configIndex"}),
   show |-> Needs({}),
   portShow |-> Needs({"mac"}),
   port |-> Needs({"mac", "port", "flag", "schedule1", "schedule2", "description"}),
   rateToggle |-> Needs({"mac", "port", "direction", "enabled"}),
   rateLimit |-> Needs({"mac", "port", "direction", "limit"})], SameKeys, <<"password">>)

SwmMaintain == Action({}, {"mac"},
  [reboot |-> Needs({"mac"}), reset |-> Needs({"mac"}), show |-> Needs({})])

SwmSearch == Action({}, {"mac", "ip", "query"},
  [mac |-> Needs({"mac"}), ip |-> Needs({"ip"}), description |-> Needs({"query"})])

SwmDb == Action({}, {"enabled", "mode", "idx"},
  [ctlToggle |-> Needs({"enabled"}), ctlShow |-> Needs({}),
   alertNotify |-> Needs({"mode"}), alertAction |-> Needs({"mode"}),
   alertSms |-> Needs({"idx"}), alertMail |-> Needs({"idx"})])

SwmAlert == Action({}, {"enabled", "idx", "name", "color", "objectIndex", "objectValue"},
  [toggle |-> Needs({"enabled"}), show |-> Needs({}), display |-> Needs({}),
   actionToggle |-> Needs({"idx", "enabled"}),
   setLog |-> Needs({"idx", "enabled"}),
   setName |-> Needs({"idx", "name"}),
   setColor |-> Needs({"idx", "color"}),
   setNotif |-> Needs({"idx", "enabled"}),
   setObject |-> Needs({"idx", "objectIndex", "objectValue"})])

SwmLog == Action({}, {"idx", "enabled", "mac"},
  [showFilter |-> Needs({}), showDay |-> Needs({}), showWeek |-> Needs({}),
   setLevel |-> Needs({"idx", "enabled"}),
   setType |-> Needs({"idx", "enabled"}),
   setSwitch |-> Needs({"mac", "enabled"})])

SwmSnmp == Action({}, {"mac", "portNum", "name"},
  [sys |-> Needs({"mac"}), iftbl |-> Needs({"mac", "portNum"}), poe |-> Needs({"mac"}),
   trpcomShow |-> Needs({"mac"}), trpcomSet |-> Needs({"mac", "name"})])

CsmAppeSet == Action({"index"}, {"group", "appIndex"},
  [a \in {"view", "enable", "disable", "enableRoute", "disableRoute"} |->
     Needs(IF a = "view" THEN {"group"} ELSE {"appIndex"})])

CsmUcf == Action({}, {"message", "index", "name", "value", "logType"},
  [show |-> Needs({}), setdefault |-> Needs({}),
   message |-> Needs({"message"}),
   objName |-> Needs({"index", "name"}),
   objPriority |-> Needs({"index", "value"}),
   objLog |-> Needs({"index", "logType"})])

CsmWcf == Tool("action", {}, {"server", "message", "index", "objAction", "name", "logType"},
  [show |-> Needs({}), look |-> Needs({}), cache |-> Needs({}), setdefault |-> Needs({}),
   server |-> Needs({"server"}),
   message |-> Needs({"message"}),
   objView |-> Needs({"index"}),
   objAction |-> Needs({"index", "objAction"}),
   objName |-> Needs({"index", "name"}),
   objLog |-> Needs({"index", "logType"})], [objAction |-> "value"], <<>>)

CsmDnsf == Tool("action", {},
  {"state", "value", "index", "hours", "blockpage", "name", "logType"},
  [enable |-> Needs({"state"}), syslog |-> Needs({"value"}), wcf |-> Needs({"index"}),
   ucf |-> Needs({"index"}), cachetime |-> Needs({"hours"}),
   blockpage |-> Needs({"blockpage"}),
   profileShow |-> Needs({}), profileSetdefault |-> Needs({}),
   profileEditName |-> Needs({"index", "name"}),
   profileEditLog |-> Needs({"index", "logType"})], [blockpage |-> "value"], <<>>)

IpfSet == Action({}, {"setNo", "pass", "logToSyslog", "family", "enabled", "page"},
  [callFilterSet |-> Needs({"setNo"}), dataFilterSet |-> Needs({"setNo"}),
   defaultAction |-> Needs({"pass", "logToSyslog"}),
   acceptRoutingFromWan |-> Needs({"family", "enabled"}),
   strictSecurityFirewall |-> Needs({"enabled"}),
   codePage |-> Needs({"page"})])

IpfRule == Action({"setNo", "ruleNo"}, {"enabled", "direction"},
  [view |-> Needs({}), enable |-> Needs({"enabled"}), direction |-> Needs({"direction"})])

LdapSet == Tool("option", {}, {"enabled", "bindType", "ipAddress", "port", "value"},
  [enable |-> Needs({"enabled"}), type |-> Needs({"bindType"}), ssl |-> Needs({"enabled"}),
   ip |-> Needs({"ipAddress"}), port |-> Needs({"port"}),
   dn |-> Needs({"value"}), password |-> Needs({"value"})], SameKeys, <<"value">>)

LdapUser == Action({"index"}, {"value"},
  [a \in {"name", "baseDn", "filter", "groupDn", "commonName", "view"} |->
     Needs(IF a = "view" THEN {} ELSE {"value"})])

HsportalSetup == Tool("action", {"profile"}, {"mode", "enabled", "appKey", "appId"},
  [reset |-> Needs({}), enable |-> Needs({}), disable |-> Needs({}),
   landingPageMode |-> Needs({"mode"}),
   google |-> Needs({"enabled", "appKey"}),
   facebook |-> Needs({"enabled", "appId"})], SameKeys, <<"appKey", "appId">>)

TacacsplusSet == Tool("action", {}, {"enabled", "serverIndex", "ipAddress", "port", "secret"},
  [enable |-> Needs({"enabled"}), clear |-> Needs({}),
   serverIp |-> Needs({"serverIndex", "ipAddress"}),
   serverPort |-> Needs({"serverIndex", "port"}),
   sharedSecret |-> Needs({"serverIndex", "secret"})], SameKeys, <<"secret">>)

QosClass == Action({"classIndex"}, {"ruleIndex", "name", "ruleEnabled", "localAddress"},
  [add |-> [needs |-> {}, takes |-> {"name", "ruleEnabled", "localAddress"}],
   edit |-> [needs |-> {"ruleIndex"}, takes |-> {"name", "ruleEnabled", "localAddress"}],
   delete |-> Needs({"ruleIndex"})])

WanFailover == Action({},
  {"index", "failoverWan", "disconnectActionEnabled", "anyOrAllActionEnabled", "mainWan",
   "downloadThresholdKbps", "uploadThresholdKbps"},
  [off |-> Needs({"index"}), show |-> Needs({"index"}),
   on |-> Needs({"failoverWan", "disconnectActionEnabled", "anyOrAllActionEnabled",
                 "mainWan", "downloadThresholdKbps", "uploadThresholdKbps"})])

WanBudget == Tool("action", {"wan"}, {"enabled", "limitMb", "limitGb"},
  [state |-> Needs({"enabled"}), thresholdMb |-> Needs({"limitMb"}),
   thresholdGb |-> Needs({"limitGb"})], [wan |-> "wanInterface"], <<>>)

WanVlan == Tool("action", {"wan"}, {"tagValue", "enabled", "priority"},
  [tag |-> Needs({"tagValue"}), state |-> Needs({"enabled"}),
   priority |-> Needs({"priority"})], [wan |-> "wanInterface"], <<>>)

MngtDefenseworm == Action({}, {"port"},
  [a \in {"on", "off", "viewlog", "clearlog", "add", "del"} |->
     Needs(IF a \in {"add", "del"} THEN {"port"} ELSE {})])

Tools ==
  {SwmGroup, SwmProfile, SwmDetail, SwmMaintain, SwmSearch, SwmDb, SwmAlert, SwmLog,
   SwmSnmp, CsmAppeSet, CsmUcf, CsmWcf, CsmDnsf, IpfSet, IpfRule, LdapSet, LdapUser,
   HsportalSetup, TacacsplusSet, QosClass, WanFailover, WanBudget, WanVlan,
   MngtDefenseworm}

\* The key of an argument in the input.
InputKey(tool, arg) == IF arg \in DOMAIN tool.renamed THEN tool.renamed[arg] ELSE arg

\* The arguments that toInput picks for an action, of those that the call gives.
Picked(tool, action, given) ==
  tool.always \cup tool.actions[action].needs \cup (tool.actions[action].takes \cap given)

\* req() throws for a missing argument.
ToInputThrows(tool, action, given) == ~(tool.actions[action].needs \subseteq given)
=============================================================================
