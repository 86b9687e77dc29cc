SPECIFICATION HookSpec
CONSTANTS
    Runs = {r1}
    Events <- OrchestratorEvents
    Subscriptions <- TheSubscriptions
    Tenants = {dev}
    EmitTenant = dev
    MaxAttempts = 3
    MaxEndpoints = 1
    MaxHookTime = 1
    None = None
CHECK_DEADLOCK FALSE
INVARIANT
    EventsFeedListeners
