SPECIFICATION StartupFairSpec
CONSTANTS
  Unset = Unset
  Junk = Junk
  Numbers = {0, 4, 6}
  Adjustable = {"QUEUE_MAX_DEPTH", "MAX_QUEUED_PER_PARTICIPANT", "MAX_RUNNING_PER_PARTICIPANT", "MOCK_WORK_DURATION", "WORKER_HARD_TIMEOUT", "WORKER_STALE_AFTER", "REDIS_OPERATION_TIMEOUT", "OUTBOX_POLL_INTERVAL", "OUTBOX_MAX_BACKOFF", "COOKIE_HMAC_SECRET", "TRUSTED_PROXY_CIDR"}
  MaxAdjusted = 2
  MaxUpsets = 4
INVARIANT ServesOnSchema
PROPERTIES ComesUp
CHECK_DEADLOCK FALSE
