---------------------------- MODULE MCWorkflowJob ----------------------------
EXTENDS WorkflowJob

\* Two children in parallel, and a pause.
MCRequests == {"parallel", "pause"}

MCCost == [r \in MCRequests |-> IF r = "parallel" THEN 2 ELSE 0]

\* Children only.
MCAgents == {"agent"}

MCAgentCost == [r \in MCAgents |-> 1]
=============================================================================
