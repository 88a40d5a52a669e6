------------------------------ MODULE Workbench ------------------------------
(***************************************************************************)
(* The parts beside the turn itself that keep to themselves: what a worker *)
(* foresees, what a turn selects of its pool, the builder, the connectors, *)
(* the corpora, the operator's figures and the configuration schemas.      *)
(* They meet in no state (each has its own tables, or works on a snapshot  *)
(* of others'), so a behaviour moves one of them.                          *)
(***************************************************************************)
EXTENDS Predictor, Selection, Builder, Connectors, Corpora, Metrics, Schemas

VARIABLE focus
all == <<predictorVars, selectionVars, builderVars, connectorVars, corporaVars, metricsVars, schemaVars, focus>>

Parts == {"predictor", "selection", "builder", "connectors", "corpora", "metrics", "schemas"}

\* Where the connectors are not looked at, their tables start empty.
WorkbenchInit ==
    /\ focus \in Parts
    /\ PredictorInit /\ SelectionInit /\ BuilderInit /\ ConnectorsInit /\ CorporaInit /\ MetricsInit /\ SchemasInit
    /\ focus # "connectors" =>
          /\ registry = [n \in ConnectorNames |-> NoConnector]
          /\ vault = [s \in SecretNames |-> Unset]

Predicts == /\ focus = "predictor" /\ PredictorNext
            /\ UNCHANGED <<selectionVars, builderVars, connectorVars, corporaVars, metricsVars, schemaVars, focus>>
Selects  == /\ focus = "selection" /\ SelectionNext
            /\ UNCHANGED <<predictorVars, builderVars, connectorVars, corporaVars, metricsVars, schemaVars, focus>>
Builds   == /\ focus = "builder" /\ BuilderNext
            /\ UNCHANGED <<predictorVars, selectionVars, connectorVars, corporaVars, metricsVars, schemaVars, focus>>
Connects == /\ focus = "connectors" /\ ConnectorsNext
            /\ UNCHANGED <<predictorVars, selectionVars, builderVars, corporaVars, metricsVars, schemaVars, focus>>
Collects == /\ focus = "corpora" /\ CorporaNext
            /\ UNCHANGED <<predictorVars, selectionVars, builderVars, connectorVars, metricsVars, schemaVars, focus>>
Measures == /\ focus = "metrics" /\ MetricsNext
            /\ UNCHANGED <<predictorVars, selectionVars, builderVars, connectorVars, corporaVars, schemaVars, focus>>
Declares == /\ focus = "schemas" /\ SchemasNext
            /\ UNCHANGED <<predictorVars, selectionVars, builderVars, connectorVars, corporaVars, metricsVars, focus>>

WorkbenchNext == Predicts \/ Selects \/ Builds \/ Connects \/ Collects \/ Measures \/ Declares
WorkbenchSpec == WorkbenchInit /\ [][WorkbenchNext]_all
=============================================================================
