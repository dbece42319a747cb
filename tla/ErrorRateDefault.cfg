SPECIFICATION Spec
CONSTANTS
    N = 7
    HealthCheckPercent = 80
INVARIANT MinimumEnforced
