SPECIFICATION OSpec
CONSTANTS
    Searches = {s1, s2, s3}
    Threshold = 2
    Cooldown = 3
    Timeout = 2
PROPERTIES
    HalfOpenRetries
