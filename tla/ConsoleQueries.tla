--------------------------- MODULE ConsoleQueries ---------------------------
(***************************************************************************)
(* What the console asks of the server: its queries by the prefixes of     *)
(* their React Query key, its mutations by the keys their onSuccess        *)
(* invalidates, the server-sent events by the keys their handler           *)
(* invalidates, and the queries every page mounts.  A key is written as    *)
(* its path; "id" is the one incident, site or task a page is about.       *)
(* Seconds of a poll are kept only as far as there being a poll.           *)
(***************************************************************************)
EXTENDS Naturals, FiniteSets

(* Tables whose entries are apart, as one.                                 *)
Merged(tables) ==
  [ x \in UNION { DOMAIN f : f \in tables } |->
      (CHOOSE f \in tables : x \in DOMAIN f)[x] ]

(* "keys": the prefixes of a query's key that something names; "dated":    *)
(* the key holds as_of, so that every replay position is a query.          *)
Query(keys, polled, dated) == [ keys |-> keys, polled |-> polled, dated |-> dated ]
Dated(key)  == Query({ key }, FALSE, TRUE)
Polled(key) == Query({ key }, TRUE, TRUE)

-----------------------------------------------------------------------------
(* The queries, one table per hook file.                                   *)
TaskQueries ==
  [ task |-> Dated("tasks"), tasks |-> Dated("tasks"),
    allTasks |-> Dated("tasks"),
    taskTransitions |-> Query({ "tasks" }, FALSE, FALSE) ]

IncidentKeys == { "incidents", "incidents/id" }
IncidentQueriesUnpolled ==
  [ incidents |-> Dated("incidents"), incident |-> Query(IncidentKeys, FALSE, TRUE),
    incidentTransitions |-> Query({ "incident-transitions" }, FALSE, FALSE) ]
IncidentQueries ==
  [ incidents |-> Polled("incidents"), incident |-> Query(IncidentKeys, TRUE, TRUE),
    incidentTransitions |-> Query({ "incident-transitions" }, TRUE, FALSE) ]

IncidentThreadQueries ==
  [ incidentNotes |-> Polled("incident-notes"),
    incidentChain |-> Polled("incident-chain"),
    prosecutionSteps |-> Dated("prosecution-steps") ]

SiteQueries ==
  [ site |-> Dated("sites"), sites |-> Dated("sites"), allSites |-> Dated("sites"),
    siteRiskHistory |-> Polled("site-risk-history"),
    siteTimeline |-> Polled("site-timeline") ]

AssetQueries ==
  [ asset |-> Dated("assets"), assets |-> Dated("assets"),
    allAssets |-> Dated("assets") ]

AreaQueries ==
  [ areas |-> Dated("areas_of_operation"), area |-> Dated("areas_of_operation"),
    allAreas |-> Dated("areas_of_operation") ]

ChokepointQueries ==
  [ chokepoints |-> Dated("chokepoints"), allChokepoints |-> Dated("chokepoints") ]

RuleQueries ==
  [ rules |-> Dated("correlation_rules"),
    ruleEffectiveness |-> Query({ "correlation_rules" }, FALSE, FALSE) ]

AlertQueries ==
  [ alerts |-> Polled("signal_rule_matches"),
    alertPages |-> Polled("signal_rule_matches"),
    breachSites |-> Polled("signal_rule_matches") ]

RecommendationQueries ==
  [ recommendations |-> Polled("recommendations"),
    recommendationMetrics |-> Query({ "recommendations-metrics" }, TRUE, FALSE) ]

PlanningQueries == [ planning |-> Dated("planning") ]

ReadinessQueries ==
  [ readiness |-> Dated("readiness"),
    throughput |-> Query({ "analytics/throughput" }, FALSE, FALSE),
    swimlane |-> Polled("analytics/swimlane") ]

VesselQueries ==
  [ vessels |-> Query({ "vessels" }, TRUE, FALSE),
    vesselTracks |-> Query({ "vessel-tracks" }, FALSE, FALSE) ]

RiskQueries == [ riskScores |-> Polled("risk_scores") ]

HealthQueries ==
  [ feedHealth |-> Query({ "feedHealth" }, TRUE, FALSE),
    operationalHealth |-> Query({ "operationalHealth" }, TRUE, FALSE) ]

ReplayQueries ==
  [ assetTrails |-> Dated("asset-trails"), telemetry |-> Dated("telemetry"),
    auditEvents |-> Dated("audit_events") ]

AdminQueries ==
  [ users |-> Query({ "users" }, FALSE, FALSE),
    organizations |-> Query({ "organizations" }, FALSE, FALSE),
    sessions |-> Query({ "user-sessions" }, TRUE, FALSE) ]

Queries ==
  Merged({ TaskQueries, IncidentQueries, IncidentThreadQueries, SiteQueries,
           AssetQueries, AreaQueries, ChokepointQueries, RuleQueries,
           AlertQueries, RecommendationQueries, PlanningQueries,
           ReadinessQueries, VesselQueries, RiskQueries, HealthQueries,
           ReplayQueries, AdminQueries })

(* A query is read anew for any prefix of its key.                         *)
Reads(q, keys) == Queries[q].keys \cap keys # {}

-----------------------------------------------------------------------------
(* What each call of the API addresses: the resource its path names, by    *)
(* the keys that read it back.  Nearly every call writes more than that    *)
(* (executing a recommendation writes alerts, incidents, tasks or sites, a *)
(* transition shows in the incident's chain, a task in planning), and its  *)
(* onSuccess does not know of it: the rest is left open (see               *)
(* ServerWrites).                                                          *)
TaskApi ==
  [ createTask |-> {"tasks"}, updateTask |-> {"tasks"}, transitionTask |-> {"tasks"} ]
IncidentApi ==
  [ updateIncident |-> {"incidents"}, assignIncident |-> {"incidents"},
    transitionIncident |-> {"incidents", "incident-transitions"} ]
IncidentThreadApi ==
  [ addIncidentNote |-> {"incident-notes"},
    initiateProsecution |-> {"incidents", "prosecution-steps"},
    addProsecutionStep |-> {"incidents/id", "prosecution-steps"} ]
SiteApi ==
  [ unflagSite |-> {"sites"}, toggleSiteStatus |-> {"sites"},
    updateSiteGeofence |-> {"sites"} ]
AssetApi == [ updateAssetStatus |-> {"assets"} ]
AreaApi ==
  [ createArea |-> {"areas_of_operation"}, updateArea |-> {"areas_of_operation"},
    deleteArea |-> {"areas_of_operation"},
    updatePosture |-> {"areas_of_operation"} ]
ChokepointApi ==
  [ createChokepoint |-> {"chokepoints"}, updateChokepoint |-> {"chokepoints"},
    deleteChokepoint |-> {"chokepoints"} ]
RuleApi ==
  [ createRule |-> {"correlation_rules"}, updateRule |-> {"correlation_rules"},
    deleteRule |-> {"correlation_rules"} ]
DoctrineApi ==
  [ createIntent |-> {"planning"}, updateIntent |-> {"planning"},
    createPace |-> {"planning"}, updatePace |-> {"planning"},
    createSalute |-> {"planning"} ]
AlertApi ==
  [ transitionAlert |-> {"signal_rule_matches"},
    bulkTransition |-> {"signal_rule_matches"} ]
RecommendationApi ==
  [ generate |-> {"recommendations", "recommendations-metrics"},
    accept |-> {"recommendations", "recommendations-metrics"},
    reject |-> {"recommendations", "recommendations-metrics"},
    defer |-> {"recommendations", "recommendations-metrics"},
    execute |-> {"recommendations", "recommendations-metrics"} ]
AdminApi ==
  [ updateUser |-> {"users"}, saveOrganization |-> {"organizations"},
    deleteOrganization |-> {"organizations"},
    revokeSessions |-> {"user-sessions"}, injectSignal |-> {"signals"} ]

Addressed ==
  Merged({ TaskApi, IncidentApi, IncidentThreadApi, SiteApi, AssetApi, AreaApi,
           ChokepointApi, RuleApi, DoctrineApi, AlertApi, RecommendationApi,
           AdminApi })

-----------------------------------------------------------------------------
(* What the onSuccess of each mutation invalidates.                        *)
All(ops, keys) == [ op \in ops |-> keys ]

TaskMutations ==
  [ createTask |-> { "tasks", "readiness" },
    updateTask |-> { "tasks", "readiness", "planning" },
    transitionTask |-> { "tasks", "readiness", "planning" } ]

IncidentMutations ==
  [ updateIncident |-> { "incidents" }, assignIncident |-> { "incidents" },
    transitionIncident |-> { "incidents", "incident-transitions" } ]

IncidentThreadMutationsForgettingIncidents ==
  [ addIncidentNote |-> { "incident-notes" },
    initiateProsecution |-> { "prosecution-steps" },
    addProsecutionStep |-> { "prosecution-steps" } ]
IncidentThreadMutations ==
  [ addIncidentNote |-> { "incident-notes" },
    initiateProsecution |-> { "incidents", "incidents/id", "prosecution-steps" },
    addProsecutionStep |-> { "incidents/id", "prosecution-steps" } ]

(* The site mutations also write the answer under the key <<sites, id>>,   *)
(* which no query has: useSite's key ends in its params.                   *)
SiteMutations == All(DOMAIN SiteApi, { "sites" })

AssetMutations == All(DOMAIN AssetApi, { "assets" })
AreaMutations  == All(DOMAIN AreaApi, { "areas_of_operation" })
ChokepointMutations == All(DOMAIN ChokepointApi, { "planning", "chokepoints" })
RuleMutations  == All(DOMAIN RuleApi, { "correlation_rules" })
DoctrineMutations == All(DOMAIN DoctrineApi, { "planning" })
AlertMutations == All(DOMAIN AlertApi, { "signal_rule_matches", "dashboard" })
RecommendationMutations ==
  All(DOMAIN RecommendationApi, { "recommendations", "recommendations-metrics" })
UserMutations == [ updateUser |-> { "users", "organizations" } ]
OrganizationMutations ==
  All({ "saveOrganization", "deleteOrganization" }, { "organizations" })
SessionMutations == [ revokeSessions |-> { "user-sessions" } ]
InjectMutation == [ injectSignal |-> { "signals", "signal_rule_matches" } ]

Invalidates ==
  Merged({ TaskMutations, IncidentMutations, IncidentThreadMutations,
           SiteMutations, AssetMutations, AreaMutations, ChokepointMutations,
           RuleMutations, DoctrineMutations, AlertMutations,
           RecommendationMutations, UserMutations, OrganizationMutations,
           SessionMutations, InjectMutation })

-----------------------------------------------------------------------------
(* The live events and what their handler invalidates.                     *)
RuleFired == { "tasks", "signal_rule_matches", "correlation_rules", "sites",
               "incidents", "recommendations", "risk_scores", "analytics/swimlane" }
AlertTransitioned == { "signal_rule_matches", "risk_scores", "analytics/swimlane" }
TaskUpdated == { "tasks", "readiness", "planning", "analytics/swimlane" }
TaskCreated == TaskUpdated \cup { "risk_scores" }
TaskTransitioned == TaskCreated
PostureChanged == { "readiness", "areas_of_operation", "incidents", "planning" }
ProsecutionStarted == { "incidents", "incidents/id", "prosecution-steps" }
ProsecutionStepAdded == { "incidents/id", "prosecution-steps" }

EventInvalidates ==
  [ rule_fired |-> RuleFired, alert_transitioned |-> AlertTransitioned,
    task_created |-> TaskCreated, task_updated |-> TaskUpdated,
    task_transitioned |-> TaskTransitioned,
    geofence_breach |-> { "incidents", "recommendations" },
    site_risk_updated |-> { "sites", "readiness", "analytics/swimlane" },
    posture_changed |-> PostureChanged,
    chokepoint_updated |-> { "chokepoints", "planning" },
    planning_doctrine_updated |-> { "planning" },
    prosecution_started |-> ProsecutionStarted,
    prosecution_step_added |-> ProsecutionStepAdded ]

(* The events the server may broadcast after a call: which one depends on  *)
(* what is executed, and a broadcast that fails is only logged.            *)
TaskNews ==
  [ createTask |-> { "task_created" }, updateTask |-> { "task_updated" },
    transitionTask |-> { "task_transitioned" } ]
PostureNews == [ updatePosture |-> { "posture_changed" } ]
ProsecutionNews ==
  [ initiateProsecution |-> { "prosecution_started" },
    addProsecutionStep |-> { "prosecution_step_added" } ]
ExecutionNews ==
  [ execute |-> { "alert_transitioned", "site_risk_updated", "task_updated" } ]
Announced ==
  Merged({ TaskNews, PostureNews, ProsecutionNews, ExecutionNews,
           All(DOMAIN SiteApi, { "site_risk_updated" }),
           All(DOMAIN ChokepointApi, { "chokepoint_updated" }),
           All(DOMAIN DoctrineApi, { "planning_doctrine_updated" }),
           All(DOMAIN AlertApi, { "alert_transitioned" }) })
Broadcasts(op) == IF op \in DOMAIN Announced THEN Announced[op] ELSE {}

(* The events of the server's own jobs.                                    *)
JobNews == { "rule_fired", "geofence_breach" }

-----------------------------------------------------------------------------
(* The queries a page mounts with its route; the shell mounts "areas".     *)
MapPageQueries ==
  { "riskScores", "allSites", "allTasks", "allAssets", "allAreas", "assetTrails",
    "breachSites", "telemetry", "allChokepoints" }
GlobePageQueries ==
  { "allSites", "allTasks", "allAssets", "allAreas", "breachSites", "telemetry",
    "allChokepoints", "vessels", "vesselTracks", "assetTrails" }
DashboardQueries ==
  { "recommendations", "alerts", "riskScores", "readiness", "tasks", "throughput",
    "vessels" }
PlanningPageQueries == { "planning", "sites", "telemetry" }

PageQueries ==
  [ sites |-> { "sites", "riskScores" }, assets |-> { "assets", "sites" },
    recommendations |-> { "recommendations", "recommendationMetrics" },
    areas |-> { "areas", "sites", "rules" }, swimlane |-> { "swimlane" },
    graph |-> { "allSites", "allTasks", "allAssets" },
    siteDetail |-> { "site", "sites", "readiness", "alerts", "siteRiskHistory",
                     "siteTimeline", "auditEvents" },
    triage |-> { "alertPages" }, tasks |-> { "tasks", "sites", "assets" },
    users |-> { "users", "organizations" }, organizations |-> { "organizations" },
    rules |-> { "rules", "alerts", "ruleEffectiveness", "areas" },
    health |-> { "feedHealth", "operationalHealth" },
    incidents |-> { "incidents" }, security |-> { "sessions" },
    incidentDetail |-> { "incident", "incidentTransitions", "incidentNotes",
                         "incidentChain", "prosecutionSteps" },
    map |-> MapPageQueries, globe |-> GlobePageQueries,
    dashboard |-> DashboardQueries, planning |-> PlanningPageQueries ]

Shell == { "areas" }
Mounted(page) == PageQueries[page] \cup Shell
=============================================================================
