---------------------------- MODULE MessagesShare ----------------------------
(***************************************************************************)
(* Share groups and their persisted state.                                 *)
(* One table per generated struct; a field lists what size, encode and     *)
(* decode all know of it.                                                  *)
(***************************************************************************)
EXTENDS Schema

ShareGroupHeartbeatRequest == Struct(0, <<
    Field("group_id", Str), Field("member_id", Str), Field("member_epoch", I32),
    Option("rack_id", Str), Option("subscribed_topic_names", Arr(Str))>>)

ShareGroupHeartbeatResponse_TopicPartitions == Struct(0, <<
    Field("topic_id", Uuid), Field("partitions", Arr(I32))>>)

ShareGroupHeartbeatResponse_Assignment == Struct(0, <<
    Field("topic_partitions", Arr(ShareGroupHeartbeatResponse_TopicPartitions))>>)

ShareGroupHeartbeatResponse == Struct(0, <<
    Field("throttle_time_ms", I32), Field("error_code", I16), Option("error_message", Str),
    Option("member_id", Str), Field("member_epoch", I32), Field("heartbeat_interval_ms", I32),
    Option("assignment", ShareGroupHeartbeatResponse_Assignment)>>)

ShareGroupDescribeRequest == Struct(0, <<
    Field("group_ids", Arr(Str)), Field("include_authorized_operations", Bool)>>)

ShareGroupDescribeResponse_TopicPartitions == Struct(0, <<
    Field("topic_id", Uuid), Field("topic_name", Str), Field("partitions", Arr(I32))>>)

ShareGroupDescribeResponse_Assignment == Struct(0, <<
    Field("topic_partitions", Arr(ShareGroupDescribeResponse_TopicPartitions))>>)

ShareGroupDescribeResponse_Member == Struct(0, <<
    Field("member_id", Str), Option("rack_id", Str), Field("member_epoch", I32),
    Field("client_id", Str), Field("client_host", Str), Field("subscribed_topic_names", Arr(Str)),
    Field("assignment", ShareGroupDescribeResponse_Assignment)>>)

ShareGroupDescribeResponse_DescribedGroup == Struct(0, <<
    Field("error_code", I16), Option("error_message", Str), Field("group_id", Str),
    Field("group_state", Str), Field("group_epoch", I32), Field("assignment_epoch", I32),
    Field("assignor_name", Str), Field("members", Arr(ShareGroupDescribeResponse_Member)),
    Default(MinI32, Field("authorized_operations", I32))>>)

ShareGroupDescribeResponse == Struct(0, <<
    Field("throttle_time_ms", I32),
    Field("groups", Arr(ShareGroupDescribeResponse_DescribedGroup))>>)

ShareFetchRequest_AcknowledgementBatch == Struct(0, <<
    Field("first_offset", I64), Field("last_offset", I64), Field("acknowledge_types", Arr(I8))>>)

ShareFetchRequest_FetchPartition == Struct(0, <<
    Field("partition_index", I32), Until(0, Field("partition_max_bytes", I32)),
    Field("acknowledgement_batches", Arr(ShareFetchRequest_AcknowledgementBatch))>>)

ShareFetchRequest_FetchTopic == Struct(0, <<
    Field("topic_id", Uuid), Field("partitions", Arr(ShareFetchRequest_FetchPartition))>>)

ShareFetchRequest_ForgottenTopic == Struct(0, <<
    Field("topic_id", Uuid), Field("partitions", Arr(I32))>>)

ShareFetchRequest == Struct(0, <<
    Option("group_id", Str), OptionSome("member_id", Str), Field("share_session_epoch", I32),
    Field("max_wait_ms", I32), Field("min_bytes", I32),
    Default(2147483647, Field("max_bytes", I32)), Field("max_records", I32),
    Field("batch_size", I32), Since(2, Field("share_acquire_mode", I8)),
    Since(2, Field("is_renew_ack", Bool)), Field("topics", Arr(ShareFetchRequest_FetchTopic)),
    Field("forgotten_topics_data", Arr(ShareFetchRequest_ForgottenTopic))>>)

ShareFetchResponse_LeaderIdAndEpoch == Struct(0, <<
    Field("leader_id", I32), Field("leader_epoch", I32)>>)

ShareFetchResponse_AcquiredRecords == Struct(0, <<
    Field("first_offset", I64), Field("last_offset", I64), Field("delivery_count", I16)>>)

ShareFetchResponse_PartitionData == Struct(0, <<
    Field("partition_index", I32), Field("error_code", I16), Option("error_message", Str),
    Field("acknowledge_error_code", I16), Option("acknowledge_error_message", Str),
    Field("current_leader", ShareFetchResponse_LeaderIdAndEpoch), Field("records", Bytes),
    Field("acquired_records", Arr(ShareFetchResponse_AcquiredRecords))>>)

ShareFetchResponse_ShareFetchableTopicResponse == Struct(0, <<
    Field("topic_id", Uuid), Field("partitions", Arr(ShareFetchResponse_PartitionData))>>)

ShareFetchResponse_NodeEndpoint == Struct(0, <<
    Field("node_id", I32), Field("host", Str), Field("port", I32), Option("rack", Str)>>)

ShareFetchResponse == Struct(0, <<
    Field("throttle_time_ms", I32), Field("error_code", I16), Option("error_message", Str),
    Field("acquisition_lock_timeout_ms", I32),
    Field("responses", Arr(ShareFetchResponse_ShareFetchableTopicResponse)),
    Field("node_endpoints", Arr(ShareFetchResponse_NodeEndpoint))>>)

ShareAcknowledgeRequest_AcknowledgementBatch == Struct(0, <<
    Field("first_offset", I64), Field("last_offset", I64), Field("acknowledge_types", Arr(I8))>>)

ShareAcknowledgeRequest_AcknowledgePartition == Struct(0, <<
    Field("partition_index", I32),
    Field("acknowledgement_batches", Arr(ShareAcknowledgeRequest_AcknowledgementBatch))>>)

ShareAcknowledgeRequest_AcknowledgeTopic == Struct(0, <<
    Field("topic_id", Uuid),
    Field("partitions", Arr(ShareAcknowledgeRequest_AcknowledgePartition))>>)

ShareAcknowledgeRequest == Struct(0, <<
    Option("group_id", Str), OptionSome("member_id", Str), Field("share_session_epoch", I32),
    Since(2, Field("is_renew_ack", Bool)),
    Field("topics", Arr(ShareAcknowledgeRequest_AcknowledgeTopic))>>)

ShareAcknowledgeResponse_LeaderIdAndEpoch == Struct(0, <<
    Field("leader_id", I32), Field("leader_epoch", I32)>>)

ShareAcknowledgeResponse_PartitionData == Struct(0, <<
    Field("partition_index", I32), Field("error_code", I16), Option("error_message", Str),
    Field("current_leader", ShareAcknowledgeResponse_LeaderIdAndEpoch)>>)

ShareAcknowledgeResponse_ShareAcknowledgeTopicResponse == Struct(0, <<
    Field("topic_id", Uuid), Field("partitions", Arr(ShareAcknowledgeResponse_PartitionData))>>)

ShareAcknowledgeResponse_NodeEndpoint == Struct(0, <<
    Field("node_id", I32), Field("host", Str), Field("port", I32), Option("rack", Str)>>)

ShareAcknowledgeResponse == Struct(0, <<
    Field("throttle_time_ms", I32), Field("error_code", I16), Option("error_message", Str),
    Since(2, Field("acquisition_lock_timeout_ms", I32)),
    Field("responses", Arr(ShareAcknowledgeResponse_ShareAcknowledgeTopicResponse)),
    Field("node_endpoints", Arr(ShareAcknowledgeResponse_NodeEndpoint))>>)

DescribeShareGroupOffsetsRequest_DescribeShareGroupOffsetsRequestTopic == Struct(0, <<
    Field("topic_name", Str), Field("partitions", Arr(I32))>>)

DescribeShareGroupOffsetsRequest_DescribeShareGroupOffsetsRequestGroup == Struct(0, <<
    Field("group_id", Str),
    OptionSome("topics", Arr(DescribeShareGroupOffsetsRequest_DescribeShareGroupOffsetsRequestTopic))>>)

DescribeShareGroupOffsetsRequest == Struct(0, <<
    Field("groups", Arr(DescribeShareGroupOffsetsRequest_DescribeShareGroupOffsetsRequestGroup))>>)

DescribeShareGroupOffsetsResponse_DescribeShareGroupOffsetsResponsePartition == Struct(0, <<
    Field("partition_index", I32), Field("start_offset", I64), Field("leader_epoch", I32),
    Since(1, Default(-1, Field("lag", I64))), Field("error_code", I16),
    Option("error_message", Str)>>)

DescribeShareGroupOffsetsResponse_DescribeShareGroupOffsetsResponseTopic == Struct(0, <<
    Field("topic_name", Str), Field("topic_id", Uuid),
    Field("partitions", Arr(DescribeShareGroupOffsetsResponse_DescribeShareGroupOffsetsResponsePartition))>>)

DescribeShareGroupOffsetsResponse_DescribeShareGroupOffsetsResponseGroup == Struct(0, <<
    Field("group_id", Str),
    Field("topics", Arr(DescribeShareGroupOffsetsResponse_DescribeShareGroupOffsetsResponseTopic)),
    Field("error_code", I16), Option("error_message", Str)>>)

DescribeShareGroupOffsetsResponse == Struct(0, <<
    Field("throttle_time_ms", I32),
    Field("groups", Arr(DescribeShareGroupOffsetsResponse_DescribeShareGroupOffsetsResponseGroup))>>)

AlterShareGroupOffsetsRequest_AlterShareGroupOffsetsRequestPartition == Struct(0, <<
    Field("partition_index", I32), Field("start_offset", I64)>>)

AlterShareGroupOffsetsRequest_AlterShareGroupOffsetsRequestTopic == Struct(0, <<
    Field("topic_name", Str),
    Field("partitions", Arr(AlterShareGroupOffsetsRequest_AlterShareGroupOffsetsRequestPartition))>>)

AlterShareGroupOffsetsRequest == Struct(0, <<
    Field("group_id", Str),
    Field("topics", Arr(AlterShareGroupOffsetsRequest_AlterShareGroupOffsetsRequestTopic))>>)

AlterShareGroupOffsetsResponse_AlterShareGroupOffsetsResponsePartition == Struct(0, <<
    Field("partition_index", I32), Field("error_code", I16), Option("error_message", Str)>>)

AlterShareGroupOffsetsResponse_AlterShareGroupOffsetsResponseTopic == Struct(0, <<
    Field("topic_name", Str), Field("topic_id", Uuid),
    Field("partitions", Arr(AlterShareGroupOffsetsResponse_AlterShareGroupOffsetsResponsePartition))>>)

AlterShareGroupOffsetsResponse == Struct(0, <<
    Field("throttle_time_ms", I32), Field("error_code", I16), Option("error_message", Str),
    Field("responses", Arr(AlterShareGroupOffsetsResponse_AlterShareGroupOffsetsResponseTopic))>>)

DeleteShareGroupOffsetsRequest_DeleteShareGroupOffsetsRequestTopic == Struct(0, <<
    Field("topic_name", Str)>>)

DeleteShareGroupOffsetsRequest == Struct(0, <<
    Field("group_id", Str),
    Field("topics", Arr(DeleteShareGroupOffsetsRequest_DeleteShareGroupOffsetsRequestTopic))>>)

DeleteShareGroupOffsetsResponse_DeleteShareGroupOffsetsResponseTopic == Struct(0, <<
    Field("topic_name", Str), Field("topic_id", Uuid), Field("error_code", I16),
    Option("error_message", Str)>>)

DeleteShareGroupOffsetsResponse == Struct(0, <<
    Field("throttle_time_ms", I32), Field("error_code", I16), Option("error_message", Str),
    Field("responses", Arr(DeleteShareGroupOffsetsResponse_DeleteShareGroupOffsetsResponseTopic))>>)

InitializeShareGroupStateRequest_PartitionData == Struct(0, <<
    Field("partition", I32), Field("state_epoch", I32), Field("start_offset", I64)>>)

InitializeShareGroupStateRequest_InitializeStateData == Struct(0, <<
    Field("topic_id", Uuid),
    Field("partitions", Arr(InitializeShareGroupStateRequest_PartitionData))>>)

InitializeShareGroupStateRequest == Struct(0, <<
    Field("group_id", Str),
    Field("topics", Arr(InitializeShareGroupStateRequest_InitializeStateData))>>)

InitializeShareGroupStateResponse_PartitionResult == Struct(0, <<
    Field("partition", I32), Field("error_code", I16), Option("error_message", Str)>>)

InitializeShareGroupStateResponse_InitializeStateResult == Struct(0, <<
    Field("topic_id", Uuid),
    Field("partitions", Arr(InitializeShareGroupStateResponse_PartitionResult))>>)

InitializeShareGroupStateResponse == Struct(0, <<
    Field("results", Arr(InitializeShareGroupStateResponse_InitializeStateResult))>>)

ReadShareGroupStateRequest_PartitionData == Struct(0, <<
    Field("partition", I32), Field("leader_epoch", I32)>>)

ReadShareGroupStateRequest_ReadStateData == Struct(0, <<
    Field("topic_id", Uuid), Field("partitions", Arr(ReadShareGroupStateRequest_PartitionData))>>)

ReadShareGroupStateRequest == Struct(0, <<
    Field("group_id", Str), Field("topics", Arr(ReadShareGroupStateRequest_ReadStateData))>>)

ReadShareGroupStateResponse_StateBatch == Struct(0, <<
    Field("first_offset", I64), Field("last_offset", I64), Field("delivery_state", I8),
    Field("delivery_count", I16)>>)

ReadShareGroupStateResponse_PartitionResult == Struct(0, <<
    Field("partition", I32), Field("error_code", I16), Option("error_message", Str),
    Field("state_epoch", I32), Field("start_offset", I64),
    Field("state_batches", Arr(ReadShareGroupStateResponse_StateBatch))>>)

ReadShareGroupStateResponse_ReadStateResult == Struct(0, <<
    Field("topic_id", Uuid),
    Field("partitions", Arr(ReadShareGroupStateResponse_PartitionResult))>>)

ReadShareGroupStateResponse == Struct(0, <<
    Field("results", Arr(ReadShareGroupStateResponse_ReadStateResult))>>)

WriteShareGroupStateRequest_StateBatch == Struct(0, <<
    Field("first_offset", I64), Field("last_offset", I64), Field("delivery_state", I8),
    Field("delivery_count", I16)>>)

WriteShareGroupStateRequest_PartitionData == Struct(0, <<
    Field("partition", I32), Field("state_epoch", I32), Field("leader_epoch", I32),
    Field("start_offset", I64), Since(1, Default(-1, Field("delivery_complete_count", I32))),
    Field("state_batches", Arr(WriteShareGroupStateRequest_StateBatch))>>)

WriteShareGroupStateRequest_WriteStateData == Struct(0, <<
    Field("topic_id", Uuid), Field("partitions", Arr(WriteShareGroupStateRequest_PartitionData))>>)

WriteShareGroupStateRequest == Struct(0, <<
    Field("group_id", Str), Field("topics", Arr(WriteShareGroupStateRequest_WriteStateData))>>)

WriteShareGroupStateResponse_PartitionResult == Struct(0, <<
    Field("partition", I32), Field("error_code", I16), Option("error_message", Str)>>)

WriteShareGroupStateResponse_WriteStateResult == Struct(0, <<
    Field("topic_id", Uuid),
    Field("partitions", Arr(WriteShareGroupStateResponse_PartitionResult))>>)

WriteShareGroupStateResponse == Struct(0, <<
    Field("results", Arr(WriteShareGroupStateResponse_WriteStateResult))>>)

DeleteShareGroupStateRequest_PartitionData == Struct(0, <<Field("partition", I32)>>)

DeleteShareGroupStateRequest_DeleteStateData == Struct(0, <<
    Field("topic_id", Uuid),
    Field("partitions", Arr(DeleteShareGroupStateRequest_PartitionData))>>)

DeleteShareGroupStateRequest == Struct(0, <<
    Field("group_id", Str), Field("topics", Arr(DeleteShareGroupStateRequest_DeleteStateData))>>)

DeleteShareGroupStateResponse_PartitionResult == Struct(0, <<
    Field("partition", I32), Field("error_code", I16), Option("error_message", Str)>>)

DeleteShareGroupStateResponse_DeleteStateResult == Struct(0, <<
    Field("topic_id", Uuid),
    Field("partitions", Arr(DeleteShareGroupStateResponse_PartitionResult))>>)

DeleteShareGroupStateResponse == Struct(0, <<
    Field("results", Arr(DeleteShareGroupStateResponse_DeleteStateResult))>>)

ReadShareGroupStateSummaryRequest_PartitionData == Struct(0, <<
    Field("partition", I32), Field("leader_epoch", I32)>>)

ReadShareGroupStateSummaryRequest_ReadStateSummaryData == Struct(0, <<
    Field("topic_id", Uuid),
    Field("partitions", Arr(ReadShareGroupStateSummaryRequest_PartitionData))>>)

ReadShareGroupStateSummaryRequest == Struct(0, <<
    Field("group_id", Str),
    Field("topics", Arr(ReadShareGroupStateSummaryRequest_ReadStateSummaryData))>>)

ReadShareGroupStateSummaryResponse_PartitionResult == Struct(0, <<
    Field("partition", I32), Field("error_code", I16), Option("error_message", Str),
    Field("state_epoch", I32), Field("leader_epoch", I32), Field("start_offset", I64),
    Since(1, Default(-1, Field("delivery_complete_count", I32)))>>)

ReadShareGroupStateSummaryResponse_ReadStateSummaryResult == Struct(0, <<
    Field("topic_id", Uuid),
    Field("partitions", Arr(ReadShareGroupStateSummaryResponse_PartitionResult))>>)

ReadShareGroupStateSummaryResponse == Struct(0, <<
    Field("results", Arr(ReadShareGroupStateSummaryResponse_ReadStateSummaryResult))>>)

=============================================================================
